---------------------------- MODULE Spec2Model ----------------------------
(***************************************************************************)
(* CloudIPAtlas: the orchestrator of src/main.py, and the collectors of    *)
(* src/collectors_ips with the functions of ip_utils.py they call.         *)
(*                                                                         *)
(* main() checks the configuration file, resolves the providers to         *)
(* process, creates a ProgressMonitor and its daemon thread, submits one   *)
(* run_provider job per provider to a ThreadPoolExecutor, collects the     *)
(* futures with as_completed, stops the monitor, joins it for at most one  *)
(* second, logs the summary and exits.                                     *)
(*                                                                         *)
(* Threads: main, the monitor thread, and the pool's worker threads.  One  *)
(* step of the model is one statement (or one lock-protected statement)    *)
(* of one thread.  Wall-clock values (elapsed_time) are not modelled.      *)
(*                                                                         *)
(* A collector turns the data its source hands over into files of sorted   *)
(* address literals and the statistics of its index.md.  A Python string   *)
(* is the sequence of its characters, so that strip, lower, split, the     *)
(* test for '/' and the parse of ipaddress.ip_network are computed.        *)
(***************************************************************************)
EXTENDS Naturals, Integers, Sequences, FiniteSets, TLC

(***************************************************************************)
(* Bounds of the model.                                                    *)
(***************************************************************************)
\* the providers of the model are all_providers[FirstIdx .. FirstIdx+NumProviders-1]
FirstIdx == 5
NumProviders == 2
\* os.cpu_count() is drawn from 1..MaxCpu
MaxCpu == 2
\* number of 3-second timeouts of stop_event.wait the monitor may take
MaxTicks == 1
\* the longest list of untagged texts a source hands over
MaxLen == 2
\* the most tagged entries a source hands over
MaxRecords == 2

(***************************************************************************)
(* Program constants.                                                      *)
(***************************************************************************)
all_providers ==
    << "Azure", "AWS", "GCP", "OCI", "OVH", "Scaleway", "Cloudflare", "Fastly",
       "Linode", "DigitalOcean", "Starlink", "Vultr", "Zscaler", "IBM_Cloud",
       "Exoscale", "Googlebot", "Outscale", "Bingbot", "Meta", "OpenAI",
       "Perplexity", "GitHub", "Ahrefs" >>

\* collector modules that call sys.exit(1) while they are imported, when
\* BeautifulSoup4 is not installed
ImportExits == {"OVH", "Scaleway", "IBM_Cloud", "Outscale"}

\* texts of the exceptions a collector raises (str(e)); one text stands for all
ErrTexts == {"download failed"}

Min(a, b) == IF a < b THEN a ELSE b

LastIdx == Min(FirstIdx + NumProviders - 1, Len(all_providers))
Providers == {all_providers[i] : i \in FirstIdx..LastIdx}
\* identities for pool threads; the threads of a run are 1..max_workers
Workers == 1..MaxCpu

\* the order-preserving sub-lists of all_providers within the window
RECURSIVE SubLists(_, _)
SubLists(i, hi) ==
    IF i > hi THEN {<<>>}
    ELSE LET rest == SubLists(i + 1, hi)
         IN  rest \cup {<<all_providers[i]>> \o r : r \in rest}

Range(s) == {s[i] : i \in 1..Len(s)}

(***************************************************************************)
(* Strings.  A Python str is modelled as the sequence of its characters,   *)
(* so that lower(), replace(), strip(), `in' and comparison are computed   *)
(* from the text.                                                          *)
(***************************************************************************)
\* the characters of each name of all_providers
name_chars ==
    [Azure |-> <<"A","z","u","r","e">>,
     AWS |-> <<"A","W","S">>,
     GCP |-> <<"G","C","P">>,
     OCI |-> <<"O","C","I">>,
     OVH |-> <<"O","V","H">>,
     Scaleway |-> <<"S","c","a","l","e","w","a","y">>,
     Cloudflare |-> <<"C","l","o","u","d","f","l","a","r","e">>,
     Fastly |-> <<"F","a","s","t","l","y">>,
     Linode |-> <<"L","i","n","o","d","e">>,
     DigitalOcean |-> <<"D","i","g","i","t","a","l","O","c","e","a","n">>,
     Starlink |-> <<"S","t","a","r","l","i","n","k">>,
     Vultr |-> <<"V","u","l","t","r">>,
     Zscaler |-> <<"Z","s","c","a","l","e","r">>,
     IBM_Cloud |-> <<"I","B","M","_","C","l","o","u","d">>,
     Exoscale |-> <<"E","x","o","s","c","a","l","e">>,
     Googlebot |-> <<"G","o","o","g","l","e","b","o","t">>,
     Outscale |-> <<"O","u","t","s","c","a","l","e">>,
     Bingbot |-> <<"B","i","n","g","b","o","t">>,
     Meta |-> <<"M","e","t","a">>,
     OpenAI |-> <<"O","p","e","n","A","I">>,
     Perplexity |-> <<"P","e","r","p","l","e","x","i","t","y">>,
     GitHub |-> <<"G","i","t","H","u","b">>,
     Ahrefs |-> <<"A","h","r","e","f","s">>]

\* main.py 287-289: the values argparse accepts for --providers
choices ==
    << <<"a","z","u","r","e">>,
       <<"a","w","s">>,
       <<"g","c","p">>,
       <<"o","c","i">>,
       <<"o","v","h">>,
       <<"s","c","a","l","e","w","a","y">>,
       <<"c","l","o","u","d","f","l","a","r","e">>,
       <<"f","a","s","t","l","y">>,
       <<"l","i","n","o","d","e">>,
       <<"d","i","g","i","t","a","l","o","c","e","a","n">>,
       <<"s","t","a","r","l","i","n","k">>,
       <<"v","u","l","t","r">>,
       <<"z","s","c","a","l","e","r">>,
       <<"i","b","m","-","c","l","o","u","d">>,
       <<"e","x","o","s","c","a","l","e">>,
       <<"g","o","o","g","l","e","b","o","t">>,
       <<"o","u","t","s","c","a","l","e">>,
       <<"b","i","n","g","b","o","t">>,
       <<"m","e","t","a">>,
       <<"o","p","e","n","a","i">>,
       <<"p","e","r","p","l","e","x","i","t","y">>,
       <<"g","i","t","h","u","b">>,
       <<"a","h","r","e","f","s">>,
       <<"a","l","l">> >>

\* str.lower on the ASCII letters
uppercase ==
    [A |-> "a", B |-> "b", C |-> "c", D |-> "d", E |-> "e", F |-> "f", G |-> "g", H |-> "h", I |-> "i", J |-> "j", K |-> "k", L |-> "l", M |-> "m", N |-> "n", O |-> "o", P |-> "p", Q |-> "q", R |-> "r", S |-> "s", T |-> "t", U |-> "u", V |-> "v", W |-> "w", X |-> "x", Y |-> "y", Z |-> "z"]

lower_char(c) == IF c \in DOMAIN uppercase THEN uppercase[c] ELSE c

\* s.lower()
str_lower(s) == [i \in 1..Len(s) |-> lower_char(s[i])]

\* s.replace(c, '')
str_remove(s, c) == SelectSeq(s, LAMBDA x : x # c)

\* the characters of the model in the order of their code points
ascii_order ==
    << " ", "-", ".", "/", "0", "1", "2", "3", "4", "5", "6", "7", "8", "9", ":",
       "A", "B", "C", "D", "E", "F", "G", "H", "I", "J", "K", "L", "M", "N", "O",
       "P", "Q", "R", "S", "T", "U", "V", "W", "X", "Y", "Z", "_",
       "a", "b", "c", "d", "e", "f", "g", "h", "i", "j", "k", "l", "m", "n", "o",
       "p", "q", "r", "s", "t", "u", "v", "w", "x", "y", "z" >>

ord(c) == CHOOSE i \in 1..Len(ascii_order) : ascii_order[i] = c

\* a < b on str: the first differing character decides, a proper prefix is less
str_less(a, b) ==
    \/ \E i \in 1..Min(Len(a), Len(b)) :
          /\ ord(a[i]) < ord(b[i])
          /\ \A j \in 1..(i - 1) : a[j] = b[j]
    \/ /\ Len(a) < Len(b)
       /\ \A j \in 1..Len(a) : a[j] = b[j]

\* s.strip(), the whitespace of the model being the space
str_strip(s) ==
    LET inked == {i \in 1..Len(s) : s[i] # " "}
    IN  IF inked = {} THEN <<>>
        ELSE SubSeq(s, CHOOSE i \in inked : \A j \in inked : i <= j,
                       CHOOSE i \in inked : \A j \in inked : j <= i)

\* s.split(c): the pieces of s between the occurrences of c
str_split(s, c) ==
    LET cuts == {0, Len(s) + 1} \cup {i \in 1..Len(s) : s[i] = c}
        cut(k) == CHOOSE x \in cuts : Cardinality({y \in cuts : y < x}) = k
    IN  [k \in 1..(Cardinality(cuts) - 1) |-> SubSeq(s, cut(k - 1) + 1, cut(k) - 1)]

\* sorted(s, key=...): the stable sort of s; less holds the pairs <<i, j>>
\* of positions for which the key of s[i] is less than the key of s[j]
sorted(s, less) ==
    LET rank(i) == Cardinality({j \in 1..Len(s) : <<j, i>> \in less})
                     + Cardinality({j \in 1..(i - 1) :
                                      <<i, j>> \notin less /\ <<j, i>> \notin less})
    IN  [k \in 1..Len(s) |-> s[CHOOSE i \in 1..Len(s) : rank(i) = k - 1]]

(***************************************************************************)
(* The ipaddress module, for the forms of text the model uses: dotted      *)
(* quads and colon-separated hextets with one optional `::', each with an  *)
(* optional /prefixlen.  Dotted netmasks, embedded IPv4 and scope ids are  *)
(* not among the inputs.  An address is the sequence of its octets or      *)
(* hextets, most significant first.                                        *)
(***************************************************************************)
hex_digits == << "0", "1", "2", "3", "4", "5", "6", "7", "8", "9",
                 "a", "b", "c", "d", "e", "f" >>

\* int(s, base) for a str of digits; -1 stands for the error
int_of(s, base) ==
    LET digits == {hex_digits[i] : i \in 1..base}
        value(c) == (CHOOSE i \in 1..base : hex_digits[i] = lower_char(c)) - 1
        acc[i \in 0..Len(s)] == IF i = 0 THEN 0 ELSE acc[i - 1] * base + value(s[i])
    IN  IF s = <<>> \/ \E i \in 1..Len(s) : lower_char(s[i]) \notin digits
        THEN -1
        ELSE acc[Len(s)]

\* IPv4Address._ip_int_from_string: the four octets, <<>> for AddressValueError
ipv4_octets(s) ==
    LET parts == str_split(s, ".")
        octet(p) == IF Len(p) > 3 \/ (Len(p) > 1 /\ p[1] = "0") THEN -1
                    ELSE int_of(p, 10)
    IN  IF Len(parts) # 4 \/ \E i \in 1..Len(parts) : octet(parts[i]) \notin 0..255
        THEN <<>>
        ELSE [i \in 1..4 |-> octet(parts[i])]

\* IPv6Address._ip_int_from_string: the eight hextets, <<>> for AddressValueError
ipv6_hextets(s) ==
    LET parts == str_split(s, ":")
        n == Len(parts)
        skips == {i \in 2..(n - 1) : parts[i] = <<>>}
        skip == CHOOSE i \in skips : TRUE
        parts_hi == IF skips = {} THEN n
                    ELSE IF parts[1] = <<>> THEN skip - 2 ELSE skip - 1
        parts_lo == IF skips = {} THEN 0
                    ELSE IF parts[n] = <<>> THEN n - skip - 1 ELSE n - skip
        hextet(p) == IF Len(p) > 4 THEN -1 ELSE int_of(p, 16)
        given == SubSeq(parts, 1, parts_hi) \o SubSeq(parts, n - parts_lo + 1, n)
    IN  IF n < 3 \/ n > 9 \/ Cardinality(skips) > 1 THEN <<>>
        ELSE IF skips = {} /\ (n # 8 \/ parts[1] = <<>> \/ parts[n] = <<>>) THEN <<>>
        ELSE IF skips # {} /\ (\/ (parts[1] = <<>> /\ parts_hi # 0)
                               \/ (parts[n] = <<>> /\ parts_lo # 0)
                               \/ parts_hi + parts_lo > 7) THEN <<>>
        ELSE IF \E i \in 1..Len(given) : hextet(given[i]) < 0 THEN <<>>
        ELSE [i \in 1..8 |->
                 IF i <= parts_hi THEN hextet(given[i])
                 ELSE IF i > 8 - parts_lo THEN hextet(given[i - (8 - parts_hi - parts_lo)])
                 ELSE 0]

\* the failure of ipaddress.ip_network: ValueError
NotANetwork == [version |-> 0, network_address |-> <<>>, prefixlen |-> 0]

\* ipaddress.ip_network(s, strict=False): the host bits are masked out
parse_network(s) ==
    LET halves == str_split(s, "/")
        prefix(max) == IF Len(halves) = 1 THEN max ELSE int_of(halves[2], 10)
        masked(groups, width, len) ==
            [g \in 1..Len(groups) |->
                LET kept == IF len >= g * width THEN width
                            ELSE IF len <= (g - 1) * width THEN 0
                            ELSE len - (g - 1) * width
                    unit == 2 ^ (width - kept)
                IN  (groups[g] \div unit) * unit]
        v4 == ipv4_octets(halves[1])
        v6 == ipv6_hextets(halves[1])
    IN  IF Len(halves) > 2 THEN NotANetwork
        ELSE IF v4 # <<>> /\ prefix(32) \in 0..32
        THEN [version |-> 4, network_address |-> masked(v4, 8, prefix(32)),
              prefixlen |-> prefix(32)]
        ELSE IF v6 # <<>> /\ prefix(128) \in 0..128
        THEN [version |-> 6, network_address |-> masked(v6, 16, prefix(128)),
              prefixlen |-> prefix(128)]
        ELSE NotANetwork

\* a < b on two networks of one version: network address, then netmask
network_less(a, b) ==
    LET x == a.network_address
        y == b.network_address
    IN  \/ \E i \in 1..Len(x) : x[i] < y[i] /\ \A j \in 1..(i - 1) : x[j] = y[j]
        \/ x = y /\ a.prefixlen < b.prefixlen

(***************************************************************************)
(* The texts the sources of the model hand over.  Absent stands for the    *)
(* empty text and for a key an entry does not have.                        *)
(***************************************************************************)
Absent == <<>>

\* the texts the sources of the model hand over
RawPool ==
    { <<"1", "9", "2", ".", "0", ".", "2", ".", "0", "/", "2", "4">>,
      <<"1", "9", "2", ".", "0", ".", "2", ".", "5">>,
      <<"2", "0", "0", "1", ":", "d", "b", "8", ":", ":", "/", "3", "2">>,
      <<"1", "0", ".", "0", ".", "0", ".", "1">>,
      <<"n", "o", "t", "-", "a", "n", "-", "i", "p">>,
      <<"1", "0", ".", "0", ".", "0", ".", "5", "/", "2", "4">>,
      <<"1", "0", ".", "0", ".", "0", ".", "0", "/", "2", "4">>,
      <<"1", "0", ".", "0", ".", "0", ".", "1", "/", "3", "2">>,
      <<"9", ".", "0", ".", "0", ".", "0", "/", "8">>,
      <<" ", "1", "0", ".", "0", ".", "0", ".", "1">> }

TaggedPool ==
    { <<"1", "0", ".", "0", ".", "0", ".", "1">>,
      <<"2", "0", "0", "1", ":", "d", "b", "8", ":", ":", "/", "3", "2">>,
      <<"n", "o", "t", "-", "a", "n", "-", "i", "p">>,
      <<>> }

\* Scenario F: networks of IPv6 around /64
CountPool ==
    { <<"2", "0", "0", "1", ":", "d", "b", "8", ":", ":", "/", "6", "5">>,
      <<"2", "0", "0", "1", ":", "d", "b", "8", ":", ":", "/", "6", "4">>,
      <<"2", "0", "0", "1", ":", "d", "b", "8", ":", ":", "1">>,
      <<"2", "0", "0", "1", ":", "d", "b", "8", ":", ":", "/", "3", "2">>,
      <<"1", "0", ".", "0", ".", "0", ".", "0", "/", "2", "4">>,
      <<"9", ".", "0", ".", "0", ".", "0", "/", "8">>,
      <<"n", "o", "t", "-", "a", "n", "-", "i", "p">> }

\* Scenario A: a range and a single address of IPv4, a range of IPv6
ScenarioA ==
    << <<"1", "9", "2", ".", "0", ".", "2", ".", "0", "/", "2", "4">>,
       <<"1", "9", "2", ".", "0", ".", "2", ".", "5">>,
       <<"2", "0", "0", "1", ":", "d", "b", "8", ":", ":", "/", "3", "2">> >>

\* the texts ipaddress is asked to parse: those handed over, and their
\* stripped forms
Texts ==
    RawPool \cup TaggedPool \cup CountPool \cup {str_strip(t) : t \in RawPool}

\* what ipaddress.ip_network(s, strict=False) gives for each text; the
\* library computes it anew at every call, the model once
VARIABLE networks

ip_network(s) == networks[s]

(***************************************************************************)
(* src/collectors_ips/ip_utils.py.  A list is a sequence, a file system is *)
(* a function from the paths of the files to their lines.                  *)
(***************************************************************************)
is_ipv6(ip) == ip_network(ip).version = 6

is_valid_ip(ip) == ip_network(ip) # NotANetwork

\* a split that does not ask is_valid_ip
separate_ipv4_ipv6_Unchecked(ip_list) ==
    [ipv4 |-> SelectSeq(ip_list, LAMBDA ip : ~is_ipv6(ip)),
     ipv6 |-> SelectSeq(ip_list, LAMBDA ip : is_ipv6(ip))]

separate_ipv4_ipv6(ip_list) ==
    [ipv4 |-> SelectSeq(ip_list, LAMBDA ip : is_valid_ip(ip) /\ ~is_ipv6(ip)),
     ipv6 |-> SelectSeq(ip_list, LAMBDA ip : is_valid_ip(ip) /\ is_ipv6(ip))]

\* a classification by the prefix length
separate_single_ips_and_ranges_ByPrefix(ip_list) ==
    [single |-> SelectSeq(ip_list, LAMBDA ip :
                    ip_network(ip).prefixlen = IF is_ipv6(ip) THEN 128 ELSE 32),
     ranges |-> SelectSeq(ip_list, LAMBDA ip :
                    ip_network(ip).prefixlen # IF is_ipv6(ip) THEN 128 ELSE 32)]

separate_single_ips_and_ranges(ip_list) ==
    [single |-> SelectSeq(ip_list, LAMBDA ip : "/" \notin Range(ip)),
     ranges |-> SelectSeq(ip_list, LAMBDA ip : "/" \in Range(ip))]

\* a sort that puts the IPv6 entries first
sort_ip_list_V6First(ip_list) ==
    LET positions(l) == (1..Len(l)) \X (1..Len(l))
        by_text(l) == {p \in positions(l) : str_less(l[p[1]], l[p[2]])}
        by_network(l) == {p \in positions(l) :
                             network_less(ip_network(l[p[1]]), ip_network(l[p[2]]))}
        ipv4_list == SelectSeq(ip_list, LAMBDA ip : ~is_ipv6(ip))
        ipv6_list == SelectSeq(ip_list, is_ipv6)
    IN  IF \E i \in 1..Len(ip_list) : ~is_valid_ip(ip_list[i])
        THEN sorted(ip_list, by_text(ip_list))
        ELSE sorted(ipv6_list, by_network(ipv6_list))
                 \o sorted(ipv4_list, by_network(ipv4_list))

\* the entries that do not parse are among the IPv4 ones, and the key of the
\* sort raises ValueError for them: the except clause returns sorted(ip_list)
sort_ip_list(ip_list) ==
    LET positions(l) == (1..Len(l)) \X (1..Len(l))
        by_text(l) == {p \in positions(l) : str_less(l[p[1]], l[p[2]])}
        by_network(l) == {p \in positions(l) :
                             network_less(ip_network(l[p[1]]), ip_network(l[p[2]]))}
        ipv4_list == SelectSeq(ip_list, LAMBDA ip : ~is_ipv6(ip))
        ipv6_list == SelectSeq(ip_list, is_ipv6)
    IN  IF \E i \in 1..Len(ip_list) : ~is_valid_ip(ip_list[i])
        THEN sorted(ip_list, by_text(ip_list))
        ELSE sorted(ipv4_list, by_network(ipv4_list))
                 \o sorted(ipv6_list, by_network(ipv6_list))

\* An int of Python has no bound: it is the sequence of its digits in base
\* 2^16, the least significant first, without leading zeros; 0 is <<>>.
int_digit(a, i) == IF i <= Len(a) THEN a[i] ELSE 0

\* max(S)
max(S) == CHOOSE x \in S : \A y \in S : y <= x

int_normal(a) ==
    SubSeq(a, 1, max({0} \cup {i \in 1..Len(a) : a[i] # 0}))

\* 2 ** k
int_pow2(k) == [i \in 1..((k \div 16) + 1) |-> IF i = (k \div 16) + 1 THEN 2 ^ (k % 16) ELSE 0]

\* a + b
int_add(a, b) ==
    LET n == max({Len(a), Len(b)})
        carry[i \in 0..n] ==
            IF i = 0 THEN 0
            ELSE (int_digit(a, i) + int_digit(b, i) + carry[i - 1]) \div 65536
    IN  int_normal([i \in 1..(n + 1) |->
                       IF i <= n
                       THEN (int_digit(a, i) + int_digit(b, i) + carry[i - 1]) % 65536
                       ELSE carry[n]])

\* a // 2 ** k
int_floordiv_pow2(a, k) ==
    LET q == k \div 16
        r == k % 16
    IN  int_normal([i \in 1..max({0, Len(a) - q}) |->
                       (int_digit(a, i + q) \div (2 ^ r))
                           + (int_digit(a, i + q + 1) % (2 ^ r)) * (2 ^ (16 - r))])

\* network.num_addresses
num_addresses(network) ==
    int_pow2((IF network.version = 6 THEN 128 ELSE 32) - network.prefixlen)

\* a count that takes the IPv6 networks by their addresses
calculate_total_ips_Addresses(ip_list) ==
    LET total[i \in 0..Len(ip_list)] ==
            IF i = 0 THEN <<>>
            ELSE IF ~is_valid_ip(ip_list[i]) THEN total[i - 1]
            ELSE int_add(total[i - 1], num_addresses(ip_network(ip_list[i])))
    IN  total[Len(ip_list)]

\* IPv6 networks count in /64 subnets; an entry that does not parse is skipped
calculate_total_ips(ip_list) ==
    LET total[i \in 0..Len(ip_list)] ==
            IF i = 0 THEN <<>>
            ELSE IF ~is_valid_ip(ip_list[i]) THEN total[i - 1]
            ELSE IF is_ipv6(ip_list[i])
            THEN int_add(total[i - 1],
                         int_floordiv_pow2(num_addresses(ip_network(ip_list[i])),
                                           128 - 64))
            ELSE int_add(total[i - 1], num_addresses(ip_network(ip_list[i])))
    IN  total[Len(ip_list)]

\* f"{base_path}_{kind}_{suffix}.txt"
file_path(base_path, kind, suffix) ==
    [dir |-> base_path.dir, name |-> base_path.name, kind |-> kind, suffix |-> suffix]

\* open(file_path, 'w') replaces the file
write_ip_file(fs, path, ip_list) ==
    [p \in DOMAIN fs \cup {path} |-> IF p = path THEN sort_ip_list(ip_list) ELSE fs[p]]

\* a writer that creates both files whatever their lists hold
write_separated_ip_files_Always(fs, base_path, ip_list, suffix) ==
    LET parts == separate_single_ips_and_ranges(ip_list)
    IN  write_ip_file(write_ip_file(fs, file_path(base_path, "single", suffix),
                                    parts.single),
                      file_path(base_path, "ranges", suffix), parts.ranges)

write_separated_ip_files(fs, base_path, ip_list, suffix) ==
    LET parts == separate_single_ips_and_ranges(ip_list)
        fs1 == IF parts.single # <<>>
               THEN write_ip_file(fs, file_path(base_path, "single", suffix),
                                  parts.single)
               ELSE fs
    IN  IF ip_list = <<>> THEN fs
        ELSE IF parts.ranges # <<>>
        THEN write_ip_file(fs1, file_path(base_path, "ranges", suffix), parts.ranges)
        ELSE fs1

calculate_detailed_stats(all_ips, all_ipv4, all_ipv6) ==
    LET v4 == separate_single_ips_and_ranges(all_ipv4)
        v6 == separate_single_ips_and_ranges(all_ipv6)
    IN  [total |-> Len(all_ips),
         ipv4_ranges |-> Len(all_ipv4),
         ipv6_ranges |-> Len(all_ipv6),
         ipv4_count |-> calculate_total_ips(all_ipv4),
         ipv4_single |-> Len(v4.single),
         ipv6_single |-> Len(v6.single),
         ipv4_ranges_only |-> Len(v4.ranges),
         ipv6_ranges_only |-> Len(v6.ranges)]

\* divmod(a, 10), a an int as the sequence of its digits in base 2^16
int_divmod10(a) ==
    LET rem[i \in 1..(Len(a) + 1)] ==
            IF i = Len(a) + 1 THEN 0 ELSE (rem[i + 1] * 65536 + a[i]) % 10
    IN  [quotient |-> int_normal([i \in 1..Len(a) |->
                                     (rem[i + 1] * 65536 + a[i]) \div 10]),
         remainder |-> rem[1]]

\* str(a)
RECURSIVE int_str(_)
int_str(a) ==
    LET dm == int_divmod10(a)
        last == <<hex_digits[dm.remainder + 1]>>
    IN  IF dm.quotient = <<>> THEN last ELSE int_str(dm.quotient) \o last

\* f"{n:,}": the decimal digits in groups of three
format_thousands(a) ==
    LET digits == int_str(a)
        n == Len(digits)
        group(i) == IF i > 1 /\ (n - i + 1) % 3 = 0
                    THEN <<",", digits[i]>> ELSE <<digits[i]>>
        joined[i \in 0..n] == IF i = 0 THEN <<>> ELSE joined[i - 1] \o group(i)
    IN  joined[n]

\* a small int as an int of Python
int_of_len(n) == int_normal(<<n>>)

\* `for key, count in sorted(d.items())': the rows of a table
table_rows_Inserted(d) ==
    [i \in 1..Len(d) |->
        <<"| ", d[i].key, " | ", format_thousands(int_of_len(d[i].count)), " |">>]

table_rows(d) ==
    LET items == sorted(d, {p \in (1..Len(d)) \X (1..Len(d)) :
                               \/ str_less(d[p[1]].key, d[p[2]].key)
                               \/ /\ d[p[1]].key = d[p[2]].key
                                  /\ d[p[1]].count < d[p[2]].count})
    IN  [i \in 1..Len(items) |->
            <<"| ", items[i].key, " | ",
              format_thousands(int_of_len(items[i].count)), " |">>]

None == "None"

\* generate_index_markdown with the detailed statistics, as the lines of
\* the document; now is what datetime.utcnow() gives when it is asked
generate_index_markdown(provider_name, stats, ipv6_count, services, regions, last_updated, now) ==
    LET n(x) == format_thousands(int_of_len(x))
        summary ==
            <<<<"- **Total IPs/Ranges**: ", n(stats.total)>>>>
            \o (IF stats.ipv4_single > 0
                THEN <<<<"- **IPv4 single IPs**: ", n(stats.ipv4_single)>>>> ELSE <<>>)
            \o (IF stats.ipv4_ranges_only > 0
                THEN <<<<"- **IPv4 ranges**: ", n(stats.ipv4_ranges_only), " (",
                         format_thousands(stats.ipv4_count), " addresses)">>>>
                ELSE <<>>)
            \o (IF stats.ipv6_single > 0
                THEN <<<<"- **IPv6 single IPs**: ", n(stats.ipv6_single)>>>> ELSE <<>>)
            \o (IF stats.ipv6_ranges_only > 0
                THEN <<<<"- **IPv6 ranges**: ", n(stats.ipv6_ranges_only), " (",
                         format_thousands(ipv6_count), " /64 subnets)">>>>
                ELSE <<>>)
        table(title, head, d) ==
            IF d = <<>> THEN <<>>
            ELSE <<<<"## ", title, " (", n(Len(d)), ")">>, <<head>>>> \o table_rows(d)
    IN  <<<<"# ", provider_name, " IP Ranges">>,
          <<"Last updated: ", IF last_updated = None THEN now ELSE last_updated>>,
          <<"## Summary Statistics">>>>
            \o summary
            \o table("Services", "| Service | IP Ranges |", services)
            \o table("Regions", "| Region | IP Ranges |", regions)

\* c.isalnum(), for the characters of the model
isalnum(c) ==
    \/ c \in DOMAIN uppercase
    \/ c \in {uppercase[u] : u \in DOMAIN uppercase}
    \/ c \in {"0", "1", "2", "3", "4", "5", "6", "7", "8", "9"}

sanitize_filename(name) ==
    LET replaced == [i \in 1..Len(name) |->
                        IF lower_char(name[i]) \in {" ", "."} THEN "_"
                        ELSE lower_char(name[i])]
    IN  SelectSeq(replaced, LAMBDA c : isalnum(c) \/ c \in {"_", "-"})

(***************************************************************************)
(* The collectors.  The data a source hands over is a sequence of entries, *)
(* each with the text of a prefix and the keys it is tagged with.  A dict  *)
(* is the sequence of its items in insertion order.  The order in which a  *)
(* set is iterated is not fixed by the language: list(s) is taken in an    *)
(* order the run chooses.                                                  *)
(***************************************************************************)
\* (service, region) of a tagged entry
TagPairs ==
    { <<<<"S", "3">>, <<"e", "u">>>>,
      <<<<"E", "C", "2">>, <<"e", "u">>>>, <<<<"S", "3">>, Absent>> }

\* Scenario D: a literal of service compute and region us-east; and two
\* regions whose names differ in a character that sanitize_filename replaces
DimensionPairs ==
    { <<<<"c", "o", "m", "p", "u", "t", "e">>, <<"u", "s", "-", "e", "a", "s", "t">>>>,
      <<<<"c", "o", "m", "p", "u", "t", "e">>, <<"u", "s", " ", "e", "a", "s", "t">>>>,
      <<<<"s", "t", "o", "r", "a", "g", "e">>, <<"u", "s", ".", "e", "a", "s", "t">>>> }

DimensionPool ==
    { <<"1", "0", ".", "0", ".", "0", ".", "1">>,
      <<"1", "9", "2", ".", "0", ".", "2", ".", "5">> }

Entry(ip, service, region) == [ip |-> ip, service |-> service, region |-> region]

\* the sequences of at most n members of S
SeqsUpTo(S, n) == UNION {[1..k -> S] : k \in 0..n}

SourceInputs ==
    SeqsUpTo({Entry(ip, Absent, Absent) : ip \in RawPool}, MaxLen)
        \cup SeqsUpTo({Entry(ip, Absent, Absent) : ip \in CountPool}, MaxLen)
        \cup {[i \in 1..Len(ScenarioA) |-> Entry(ScenarioA[i], Absent, Absent)]}
        \cup SeqsUpTo({Entry(ip, tags[1], tags[2]) :
                          ip \in TaggedPool, tags \in TagPairs}, MaxRecords)
        \cup SeqsUpTo({Entry(ip, tags[1], tags[2]) :
                          ip \in DimensionPool, tags \in DimensionPairs}, MaxRecords)

\* the orders in which a set can be iterated
IterationOrders(S) ==
    {order \in [1..Cardinality(S) -> S] : Range(order) = S}

\* list(s), for a set s iterated in the given order
list_of(s, order) == SelectSeq(order, LAMBDA x : x \in s)

\* a dict whose bucket is made anew at every entry: it holds the last one
group_by_LastOnly(items, dimension, default) ==
    LET key(item) == IF item[dimension] = Absent THEN default ELSE item[dimension]
        firsts == {i \in 1..Len(items) :
                      \A j \in 1..(i - 1) : key(items[j]) # key(items[i])}
        nth(k) == CHOOSE i \in firsts : Cardinality({j \in firsts : j < i}) = k - 1
        last(k) == CHOOSE j \in 1..Len(items) :
                      /\ key(items[j]) = key(items[nth(k)])
                      /\ \A i \in (j + 1)..Len(items) : key(items[i]) # key(items[j])
    IN  [k \in 1..Cardinality(firsts) |->
            [key |-> key(items[nth(k)]), ips |-> {items[last(k)].ip}]]

\* the dict built by `if k not in d: d[k] = set()' and `d[k].add(item.ip)',
\* k being the item's key of the dimension, or the default when it has none
group_by(items, dimension, default) ==
    LET key(item) == IF item[dimension] = Absent THEN default ELSE item[dimension]
        firsts == {i \in 1..Len(items) :
                      \A j \in 1..(i - 1) : key(items[j]) # key(items[i])}
        nth(k) == CHOOSE i \in firsts : Cardinality({j \in firsts : j < i}) = k - 1
    IN  [k \in 1..Cardinality(firsts) |->
            [key |-> key(items[nth(k)]),
             ips |-> {items[j].ip : j \in {j \in 1..Len(items) :
                                              key(items[j]) = key(items[nth(k)])}}]]

NoFiles == [p \in {} |-> <<>>]

\* the three global writes: aws.py 161-166, cloudflare.py 95-100
write_global_files(fs, all_ipv4, all_ipv6) ==
    LET base_path == [dir |-> "", name |-> <<"i", "p", "s">>]
    IN  write_separated_ip_files(
            write_separated_ip_files(
                write_separated_ip_files(fs, base_path, all_ipv4 \o all_ipv6, "all"),
                base_path, all_ipv4, "ipv4"),
            base_path, all_ipv6, "ipv6")

\* the loop over the items of a dimension's dict: aws.py 171-189
RECURSIVE write_bucket_files(_, _, _, _)
write_bucket_files(fs, dir, buckets, order) ==
    IF buckets = <<>> THEN fs
    ELSE LET base_path == [dir |-> dir, name |-> sanitize_filename(Head(buckets).key)]
             parts == separate_ipv4_ipv6(list_of(Head(buckets).ips, order))
             fs1 == write_separated_ip_files(fs, base_path,
                                             parts.ipv4 \o parts.ipv6, "all")
             fs2 == IF parts.ipv4 # <<>>
                    THEN write_separated_ip_files(fs1, base_path, parts.ipv4, "ipv4")
                    ELSE fs1
             fs3 == IF parts.ipv6 # <<>>
                    THEN write_separated_ip_files(fs2, base_path, parts.ipv6, "ipv6")
                    ELSE fs2
         IN  write_bucket_files(fs3, dir, Tail(buckets), order)

\* `counts[name] = len(ips)' for every item of the dict
bucket_counts(buckets) ==
    [k \in {buckets[i].key : i \in 1..Len(buckets)} |->
        Cardinality((CHOOSE b \in Range(buckets) : b.key = k).ips)]

\* CloudflareIP.download_data: the lines of the responses that are valid
cloudflare_download_data(data) ==
    SelectSeq([i \in 1..Len(data) |-> str_strip(data[i].ip)],
              LAMBDA ip : ip # <<>> /\ is_valid_ip(ip))

\* CloudflareIP.generate_files; index holds the statistics of index.md
cloudflare_generate_files(data) ==
    LET all_ips_list == cloudflare_download_data(data)
        parts == separate_ipv4_ipv6(all_ips_list)
    IN  IF all_ips_list = <<>>
        THEN [files |-> NoFiles, all_ips |-> all_ips_list, index |-> <<>>]
        ELSE [files |-> write_global_files(NoFiles, parts.ipv4, parts.ipv6),
              all_ips |-> all_ips_list,
              index |-> <<calculate_detailed_stats(all_ips_list, parts.ipv4,
                                                   parts.ipv6)>>]

\* an extraction that makes the bucket of a key anew at every prefix
aws_extract_ips_LastOnly(data) ==
    LET prefixes == SelectSeq(data, LAMBDA prefix : prefix.ip # <<>>)
    IN  [services_ips |-> group_by_LastOnly(prefixes, "service",
                                   <<"U", "N", "K", "N", "O", "W", "N">>),
         regions_ips |-> group_by_LastOnly(prefixes, "region",
                                  <<"G", "L", "O", "B", "A", "L">>),
         all_ips |-> {prefixes[i].ip : i \in 1..Len(prefixes)}]

\* AWSIP.extract_ips; the two loops do the same with `prefixes' and
\* `ipv6_prefixes', data is the one list followed by the other
aws_extract_ips(data) ==
    LET prefixes == SelectSeq(data, LAMBDA prefix : prefix.ip # <<>>)
    IN  [services_ips |-> group_by(prefixes, "service",
                                   <<"U", "N", "K", "N", "O", "W", "N">>),
         regions_ips |-> group_by(prefixes, "region",
                                  <<"G", "L", "O", "B", "A", "L">>),
         all_ips |-> {prefixes[i].ip : i \in 1..Len(prefixes)}]

\* an extraction that makes the bucket of a key anew at every prefix
gcp_extract_ips_LastOnly(data) ==
    LET prefixes == SelectSeq(data, LAMBDA prefix : prefix.ip # <<>>)
    IN  [services_ips |-> group_by_LastOnly(prefixes, "service",
                                            <<"U", "N", "K", "N", "O", "W", "N">>),
         regions_ips |-> group_by_LastOnly(prefixes, "region",
                                           <<"g", "l", "o", "b", "a", "l">>),
         all_ips |-> {prefixes[i].ip : i \in 1..Len(prefixes)}]

\* GCPIP.extract_ips; ip is the prefix's ipv4Prefix or ipv6Prefix, region
\* its scope
gcp_extract_ips(data) ==
    LET prefixes == SelectSeq(data, LAMBDA prefix : prefix.ip # <<>>)
    IN  [services_ips |-> group_by(prefixes, "service",
                                   <<"U", "N", "K", "N", "O", "W", "N">>),
         regions_ips |-> group_by(prefixes, "region",
                                  <<"g", "l", "o", "b", "a", "l">>),
         all_ips |-> {prefixes[i].ip : i \in 1..Len(prefixes)}]

\* OCIIP.extract_ips, for cidrs with at most one tag
oci_extract_ips(data) ==
    LET cidrs == SelectSeq(data, LAMBDA cidr_data : cidr_data.ip # <<>>)
    IN  [services_ips |-> group_by(cidrs, "service",
                                   <<"U", "N", "T", "A", "G", "G", "E", "D">>),
         regions_ips |-> group_by(cidrs, "region",
                                  <<"U", "N", "K", "N", "O", "W", "N">>),
         all_ips |-> {cidrs[i].ip : i \in 1..Len(cidrs)}]

\* VultrIP.extract_ips, for subnets without alpha2code: the region is the city
vultr_extract_ips(data) ==
    LET subnets == SelectSeq(data, LAMBDA subnet :
                                 subnet.ip # <<>> /\ is_valid_ip(subnet.ip))
    IN  [all_ips |-> [i \in 1..Len(subnets) |-> subnets[i].ip],
         regions_ips |-> group_by(SelectSeq(subnets, LAMBDA subnet :
                                                subnet.region # Absent),
                                  "region", Absent)]

\* AWSIP.generate_files and OCIIP.generate_files, after extract_ips
generate_dimension_files(extracted, order) ==
    LET all_ips_list == list_of(extracted.all_ips, order)
        parts == separate_ipv4_ipv6(all_ips_list)
        global == write_global_files(NoFiles, parts.ipv4, parts.ipv6)
        services == write_bucket_files(global, "services", extracted.services_ips,
                                       order)
    IN  [files |-> write_bucket_files(services, "regions", extracted.regions_ips,
                                      order),
         all_ips |-> extracted.all_ips,
         services_ips |-> extracted.services_ips,
         regions_ips |-> extracted.regions_ips,
         service_counts |-> bucket_counts(extracted.services_ips),
         region_counts |-> bucket_counts(extracted.regions_ips),
         index |-> <<calculate_detailed_stats(all_ips_list, parts.ipv4, parts.ipv6)>>]

\* VultrIP.generate_files
vultr_generate_files(data, order) ==
    LET extracted == vultr_extract_ips(data)
        parts == separate_ipv4_ipv6(extracted.all_ips)
    IN  IF extracted.all_ips = <<>>
        THEN [files |-> NoFiles, all_ips |-> <<>>, regions_ips |-> <<>>,
              region_counts |-> <<>>, index |-> <<>>]
        ELSE [files |-> write_bucket_files(
                            write_global_files(NoFiles, parts.ipv4, parts.ipv6),
                            "regions", extracted.regions_ips, order),
              all_ips |-> extracted.all_ips,
              regions_ips |-> extracted.regions_ips,
              region_counts |-> bucket_counts(extracted.regions_ips),
              index |-> <<calculate_detailed_stats(extracted.all_ips, parts.ipv4,
                                                   parts.ipv6)>>]

\* the providers the model knows: the window of all_providers
known_providers == SubSeq(all_providers, FirstIdx, LastIdx)

\* the identifiers of the window's providers, and 'all'
RequestAll == choices[Len(choices)]
WindowChoices == {choices[i] : i \in FirstIdx..LastIdx}

(***************************************************************************)
(* Values.                                                                 *)
(***************************************************************************)
NoError == "None"
Succeeded == [success |-> TRUE, error |-> NoError]
Failed(text) == [success |-> FALSE, error |-> text]
Outcomes == {Succeeded} \cup {Failed(t) : t \in ErrTexts \cup {"SystemExit"}}

\* threads, as holders of ProgressMonitor.lock
NoThread == [kind |-> "none", id |-> 0]
MainThread == [kind |-> "main", id |-> 0]
MonitorThread == [kind |-> "monitor", id |-> 0]
WorkerThread(w) == [kind |-> "worker", id |-> w]

\* a concurrent.futures.Future
PendingFuture == [state |-> "PENDING", result |-> Succeeded, exception |-> "none"]
RunningFuture == [state |-> "RUNNING", result |-> Succeeded, exception |-> "none"]
ResultFuture(r) == [state |-> "FINISHED", result |-> r, exception |-> "none"]
ExceptionFuture(kind) == [state |-> "FINISHED", result |-> Succeeded, exception |-> kind]

\* an exception object: its class and its text
Exc(kind, text) == [kind |-> kind, text |-> text]
NoExc == Exc("none", NoError)

\* `except Exception' catches every class but the BaseException-only ones
IsException(kind) == kind = "Exception"

VARIABLES
    configExists,          \* os.path.exists(args.config)
    args_providers,        \* args.providers, as the set of its entries
    cpu_count,             \* os.cpu_count()
    providers_to_process,  \* main's list of providers
    mainPc,                \* main's position
    exit_code,             \* the process exit status, once mainPc = "exited"
    max_workers,           \* the pool size, 0 before the pool exists
    work_queue,            \* the executor's queue of submitted jobs
    future,                \* provider -> Future
    yielded,               \* the futures as_completed has handed to main
    results,               \* provider -> outcome: main's results dict
    total_providers,       \* ProgressMonitor.total_providers
    completed,             \* ProgressMonitor.completed
    in_progress,           \* ProgressMonitor.in_progress
    lock,                  \* holder of ProgressMonitor.lock
    stop_event,            \* ProgressMonitor.stop_event
    monPc,                 \* the monitor thread's position
    ticks,                 \* timeouts of stop_event.wait(3) so far
    joinTimedOut,          \* monitor_thread.join(timeout=1) returned on timeout
    wpc,                   \* worker -> position in run_provider
    wjob,                  \* worker -> provider it runs
    wres,                  \* worker -> the dict run_provider is about to return
    raised,                \* provider -> the exception its collector raised
    everInProgress,        \* providers that have been in in_progress
    output,                \* the lines logged by the root logger, in order
    source_data,           \* the entries a source has handed over
    timed_results,         \* a results dict with the elapsed times, as its items
    called,                \* the collector or function applied to them
    returned               \* what it returned or wrote

vars == << configExists, args_providers, cpu_count, providers_to_process,
           mainPc, exit_code,
           max_workers, work_queue, future, yielded, results, total_providers,
           completed, in_progress, lock, stop_event, monPc, ticks, joinTimedOut,
           wpc, wjob, wres, raised, everInProgress, output,
           source_data, timed_results, called, returned, networks >>

mainVars == << mainPc, exit_code >>
poolVars == << max_workers, work_queue, future, yielded, results >>
monitorState == << total_providers, completed, in_progress, lock, everInProgress >>
monitorThreadVars == << monPc, ticks >>
workerVars == << wpc, wjob, wres, raised >>
collectVars == << source_data, timed_results, called, returned, networks >>
envVars == << configExists, args_providers, cpu_count, providers_to_process,
              collectVars >>
orchestratorVars == << configExists, args_providers, cpu_count,
                       providers_to_process, mainVars, poolVars, monitorState,
                       stop_event, monitorThreadVars, joinTimedOut, workerVars,
                       output >>

dispatched == Range(providers_to_process)

\* the state at the entry of main, but for the command line
InitState ==
    /\ configExists \in BOOLEAN
    /\ cpu_count \in 1..MaxCpu
    /\ providers_to_process = <<>>
    /\ mainPc = "check_config"
    /\ exit_code = 0
    /\ max_workers = 0
    /\ work_queue = <<>>
    /\ future = [p \in {} |-> PendingFuture]
    /\ yielded = {}
    /\ results = [p \in {} |-> Succeeded]
    /\ total_providers = 0
    /\ completed = {}
    /\ in_progress = {}
    /\ lock = NoThread
    /\ stop_event = FALSE
    /\ monPc = "none"
    /\ ticks = 0
    /\ joinTimedOut = FALSE
    /\ wpc = [w \in Workers |-> "idle"]
    /\ wjob = [w \in Workers |-> "none"]
    /\ wres = [w \in Workers |-> Succeeded]
    /\ raised = [p \in Providers |-> NoExc]
    /\ everInProgress = {}
    /\ output = <<>>
    /\ networks = [s \in Texts |-> parse_network(s)]

\* the command line names providers of the window
Init ==
    /\ args_providers \in (SUBSET WindowChoices) \ {{}}
    /\ InitState
    /\ source_data = <<>> /\ called = "none" /\ returned = <<>>
    /\ timed_results = <<>>


(***************************************************************************)
(* Helpers modelling single expressions of the code.                       *)
(***************************************************************************)
\* a check that lets a missing configuration file through
ConfigMissing_Never(exists) == FALSE

\* `if not os.path.exists(args.config)'
ConfigMissing(exists) == ~exists

\* ThreadPoolExecutor(max_workers=os.cpu_count()): the number of worker threads
PoolSize(n) == n

\* a method body that runs without taking the lock
CanAcquire_NoLock(l) == TRUE

\* `with self.lock': the lock can be taken when no thread holds it
CanAcquire(l) == l = NoThread

\* complete_provider without the removal from in_progress
RemoveProvider_Keep(S, p) == S

\* `if provider_name in self.in_progress: self.in_progress.remove(provider_name)'
RemoveProvider(S, p) == IF p \in S THEN S \ {p} ELSE S

\* a loop that is left before every future was handed over
AsCompletedExhausted_Early(y) == TRUE

\* as_completed has handed every submitted future to the loop
AsCompletedExhausted(y) == y = dispatched

\* ThreadPoolExecutor.__exit__: shutdown(wait=True) returns when every queued
\* job has run and every worker thread has ended
PoolDrained == work_queue = <<>> /\ \A w \in Workers : wpc[w] = "idle"

\* no join: main goes on whatever the monitor thread does
JoinReturns_NoWait(pc) == TRUE

\* monitor_thread.join returns at once when the thread has ended
JoinReturns(pc) == pc = "done"

\* `any(not r['success'] for r in results.values())'
AnyFailed(res) == \E p \in DOMAIN res : ~res[p].success

SuccessCount(res) == Cardinality({p \in DOMAIN res : res[p].success})

ProgressLine == [type |-> "progress",
                 completed |-> Cardinality(completed),
                 total |-> total_providers,
                 running |-> in_progress,
                 pending |-> total_providers - Cardinality(completed)
                                - Cardinality(in_progress)]

SummaryLine(res) == [type |-> "summary",
                     completed |-> Cardinality(DOMAIN res),
                     total |-> SuccessCount(res),
                     running |-> {p \in DOMAIN res : ~res[p].success},
                     pending |-> Cardinality(DOMAIN res) - SuccessCount(res)]

ConfigErrorLine == [type |-> "config_error", completed |-> 0, total |-> 0,
                    running |-> {}, pending |-> 0]

\* the exceptions the collector of provider p can raise inside run_provider's try
CollectorExceptions(p) ==
    {Exc("Exception", t) : t \in ErrTexts}
        \cup (IF p \in ImportExits THEN {Exc("SystemExit", "1")} ELSE {})

(***************************************************************************)
(* main()                                                                  *)
(***************************************************************************)
\* main.py 301-304: the configuration file is checked first
MainCheckConfig ==
    /\ mainPc = "check_config"
    /\ IF ConfigMissing(configExists)
       THEN /\ output' = Append(output, ConfigErrorLine)
            /\ exit_code' = 1
            /\ mainPc' = "exited"
       ELSE /\ mainPc' = "resolve"
            /\ UNCHANGED << output, exit_code >>
    /\ UNCHANGED << envVars, poolVars, monitorState, stop_event,
                    monitorThreadVars, joinTimedOut, workerVars >>

\* a filter that compares the names as they are spelled
ResolveProviders_NoLower(requested) ==
    IF RequestAll \in requested
    THEN known_providers
    ELSE SelectSeq(known_providers,
                   LAMBDA name :
                       str_remove(name_chars[name], "_")
                           \in {str_remove(str_remove(p, "-"), "_") : p \in requested})

\* main.py 313-320: the providers to process, from args.providers
ResolveProviders(requested) ==
    IF RequestAll \in requested
    THEN known_providers
    ELSE SelectSeq(known_providers,
                   LAMBDA name :
                       str_remove(str_lower(name_chars[name]), "_")
                           \in {str_remove(str_remove(p, "-"), "_") : p \in requested})

\* main.py 306-320
MainResolveProviders ==
    /\ mainPc = "resolve"
    /\ providers_to_process' = ResolveProviders(args_providers)
    /\ mainPc' = "start_monitor"
    /\ UNCHANGED << configExists, args_providers, cpu_count, collectVars,
                    exit_code, poolVars, monitorState, stop_event, monitorThreadVars, joinTimedOut,
                    workerVars, output >>

\* main.py 333-337: the monitor and its daemon thread
MainStartMonitor ==
    /\ mainPc = "start_monitor"
    /\ total_providers' = Len(providers_to_process)
    /\ completed' = {}
    /\ in_progress' = {}
    /\ lock' = NoThread
    /\ stop_event' = FALSE
    /\ monPc' = "loop_check"
    /\ mainPc' = "create_pool"
    /\ UNCHANGED << envVars, exit_code, poolVars, ticks, joinTimedOut,
                    workerVars, everInProgress, output >>

\* main.py 340-343
MainCreatePool ==
    /\ mainPc = "create_pool"
    /\ max_workers' = PoolSize(cpu_count)
    /\ results' = [p \in {} |-> Succeeded]
    /\ mainPc' = "submit"
    /\ UNCHANGED << envVars, exit_code, work_queue, future, yielded,
                    monitorState, stop_event, monitorThreadVars, joinTimedOut,
                    workerVars, output >>

\* main.py 345-348: one executor.submit per provider, in list order
MainSubmit ==
    /\ mainPc = "submit"
    /\ LET n == Cardinality(DOMAIN future) + 1
           p == providers_to_process[n]
       IN  /\ future' = [q \in DOMAIN future \cup {p} |->
                            IF q = p THEN PendingFuture ELSE future[q]]
           /\ work_queue' = Append(work_queue, p)
           /\ mainPc' = IF n = Len(providers_to_process) THEN "collect" ELSE "submit"
    /\ UNCHANGED << envVars, exit_code, max_workers, yielded, results,
                    monitorState, stop_event, monitorThreadVars, joinTimedOut,
                    workerVars, output >>

\* main.py 351-362: one iteration of the as_completed loop
MainCollect(p) ==
    /\ mainPc = "collect"
    /\ p \in dispatched \ yielded
    /\ future[p].state = "FINISHED"
    /\ yielded' = yielded \cup {p}
    /\ IF future[p].exception = "none"
       THEN /\ results' = [q \in DOMAIN results \cup {p} |->
                              IF q = p THEN future[p].result ELSE results[q]]
            /\ UNCHANGED << mainPc, monitorState >>
       ELSE IF IsException(future[p].exception)
       THEN /\ CanAcquire(lock)
            /\ results' = [q \in DOMAIN results \cup {p} |->
                              IF q = p THEN Failed(raised[p].text) ELSE results[q]]
            /\ in_progress' = RemoveProvider(in_progress, p)
            /\ completed' = completed \cup {p}
            /\ UNCHANGED << mainPc, total_providers, lock, everInProgress >>
       ELSE \* SystemExit is not an Exception: it leaves the loop and the with block
            /\ mainPc' = "unwind"
            /\ UNCHANGED << results, monitorState >>
    /\ UNCHANGED << envVars, exit_code, max_workers, work_queue, future,
                    stop_event, monitorThreadVars, joinTimedOut, workerVars,
                    output >>

\* main.py 343: the with block ends normally, after the loop
MainExitWith ==
    /\ mainPc = "collect"
    /\ AsCompletedExhausted(yielded)
    /\ PoolDrained
    /\ mainPc' = "stop"
    /\ UNCHANGED << envVars, exit_code, poolVars, monitorState, stop_event,
                    monitorThreadVars, joinTimedOut, workerVars, output >>

\* main.py 343: the with block is left by SystemExit; __exit__ waits for the
\* pool, then the exception ends the process with its status
MainUnwind ==
    /\ mainPc = "unwind"
    /\ PoolDrained
    /\ exit_code' = 1
    /\ mainPc' = "exited"
    /\ UNCHANGED << envVars, poolVars, monitorState, stop_event,
                    monitorThreadVars, joinTimedOut, workerVars, output >>

\* main.py 365
MainStop ==
    /\ mainPc = "stop"
    /\ stop_event' = TRUE
    /\ mainPc' = "join"
    /\ UNCHANGED << envVars, exit_code, poolVars, monitorState,
                    monitorThreadVars, joinTimedOut, workerVars, output >>

\* main.py 366: join(timeout=1), the monitor thread has ended
MainJoinReturns ==
    /\ mainPc = "join"
    /\ JoinReturns(monPc)
    /\ mainPc' = "summary"
    /\ UNCHANGED << envVars, exit_code, poolVars, monitorState, stop_event,
                    monitorThreadVars, joinTimedOut, workerVars, output >>

\* main.py 366: join(timeout=1), the second passes and the thread is alive
MainJoinTimeout ==
    /\ mainPc = "join"
    /\ monPc # "done"
    /\ joinTimedOut' = TRUE
    /\ mainPc' = "summary"
    /\ UNCHANGED << envVars, exit_code, poolVars, monitorState, stop_event,
                    monitorThreadVars, workerVars, output >>

\* main.py 372: generate_summary_report
MainSummary ==
    /\ mainPc = "summary"
    /\ output' = Append(output, SummaryLine(results))
    /\ mainPc' = "exit_check"
    /\ UNCHANGED << envVars, exit_code, poolVars, monitorState, stop_event,
                    monitorThreadVars, joinTimedOut, workerVars >>

\* main.py 375-376, and the return of main
MainExit ==
    /\ mainPc = "exit_check"
    /\ exit_code' = IF AnyFailed(results) THEN 1 ELSE 0
    /\ mainPc' = "exited"
    /\ UNCHANGED << envVars, poolVars, monitorState, stop_event,
                    monitorThreadVars, joinTimedOut, workerVars, output >>

(***************************************************************************)
(* ProgressMonitor.monitor_loop, in the daemon thread.  The thread runs    *)
(* only while the process lives.                                           *)
(***************************************************************************)
MonitorAlive == monPc \notin {"none", "done"} /\ mainPc # "exited"

\* main.py 99: `while not self.stop_event.is_set()'
MonLoopCheck ==
    /\ MonitorAlive
    /\ monPc = "loop_check"
    /\ monPc' = IF stop_event THEN "done" ELSE "wait"
    /\ UNCHANGED << envVars, mainVars, poolVars, monitorState, stop_event,
                    ticks, joinTimedOut, workerVars, output >>

\* main.py 100: stop_event.wait(3) returns False after three seconds
MonWaitTimeout ==
    /\ MonitorAlive
    /\ monPc = "wait"
    /\ ~stop_event
    /\ ticks < MaxTicks
    /\ ticks' = ticks + 1
    /\ monPc' = "if_check"
    /\ UNCHANGED << envVars, mainVars, poolVars, monitorState, stop_event,
                    joinTimedOut, workerVars, output >>

\* a sleep of three seconds in place of the wait on the event
MonWaitSignalled_Sleep ==
    /\ monPc \notin {"none", "done"} /\ mainPc # "exited"
    /\ monPc = "wait"
    /\ stop_event
    /\ ticks' = ticks + 1
    /\ monPc' = "if_check"
    /\ UNCHANGED << envVars, mainVars, poolVars, monitorState, stop_event,
                    joinTimedOut, workerVars, output >>

\* main.py 100: stop_event.wait(3) returns True as soon as the event is set
MonWaitSignalled ==
    /\ MonitorAlive
    /\ monPc = "wait"
    /\ stop_event
    /\ monPc' = "if_check"
    /\ UNCHANGED << envVars, mainVars, poolVars, monitorState, stop_event,
                    ticks, joinTimedOut, workerVars, output >>

\* main.py 101: `if not self.stop_event.is_set()'
MonIfCheck ==
    /\ MonitorAlive
    /\ monPc = "if_check"
    /\ monPc' = IF ~stop_event THEN "dp_lock" ELSE "loop_check"
    /\ UNCHANGED << envVars, mainVars, poolVars, monitorState, stop_event,
                    ticks, joinTimedOut, workerVars, output >>

\* main.py 83: display_progress takes the lock
MonDisplayAcquire ==
    /\ MonitorAlive
    /\ monPc = "dp_lock"
    /\ CanAcquire(lock)
    /\ lock' = MonitorThread
    /\ monPc' = "dp_emit"
    /\ UNCHANGED << envVars, mainVars, poolVars, total_providers, completed,
                    in_progress, everInProgress, stop_event, ticks,
                    joinTimedOut, workerVars, output >>

\* main.py 84-95: the counts are read, the status line is logged, the lock
\* is released
MonDisplayEmit ==
    /\ MonitorAlive
    /\ monPc = "dp_emit"
    /\ output' = Append(output, ProgressLine)
    /\ lock' = IF lock = MonitorThread THEN NoThread ELSE lock
    /\ monPc' = "loop_check"
    /\ UNCHANGED << envVars, mainVars, poolVars, total_providers, completed,
                    in_progress, everInProgress, stop_event, ticks,
                    joinTimedOut, workerVars >>

(***************************************************************************)
(* The pool's worker threads: _worker, _WorkItem.run and run_provider.     *)
(***************************************************************************)
\* ThreadPoolExecutor worker: work_queue.get hands the oldest job to an idle
\* thread (the idle threads are interchangeable: the lowest-numbered one is
\* taken), and future.set_running_or_notify_cancel marks it RUNNING
WorkerTake(w) ==
    /\ w <= max_workers
    /\ wpc[w] = "idle"
    /\ \A v \in 1..(w - 1) : wpc[v] # "idle"
    /\ work_queue # <<>>
    /\ LET p == Head(work_queue)
       IN  /\ wjob' = [wjob EXCEPT ![w] = p]
           /\ future' = [future EXCEPT ![p] = RunningFuture]
    /\ work_queue' = Tail(work_queue)
    /\ wpc' = [wpc EXCEPT ![w] = "sp_lock"]
    /\ UNCHANGED << envVars, mainVars, max_workers, yielded, results,
                    monitorState, stop_event, monitorThreadVars, joinTimedOut,
                    wres, raised, output >>

\* main.py 119-120, 71: start_provider takes the lock
StartAcquire(w) ==
    /\ wpc[w] = "sp_lock"
    /\ CanAcquire(lock)
    /\ lock' = WorkerThread(w)
    /\ wpc' = [wpc EXCEPT ![w] = "sp_add"]
    /\ UNCHANGED << envVars, mainVars, poolVars, total_providers, completed,
                    in_progress, everInProgress, stop_event, monitorThreadVars,
                    joinTimedOut, wjob, wres, raised, output >>

\* main.py 72: in_progress.add, then the lock is released
StartAdd(w) ==
    /\ wpc[w] = "sp_add"
    /\ in_progress' = in_progress \cup {wjob[w]}
    /\ everInProgress' = everInProgress \cup {wjob[w]}
    /\ lock' = IF lock = WorkerThread(w) THEN NoThread ELSE lock
    /\ wpc' = [wpc EXCEPT ![w] = "run"]
    /\ UNCHANGED << envVars, mainVars, poolVars, total_providers, completed,
                    stop_event, monitorThreadVars, joinTimedOut, wjob, wres,
                    raised, output >>

\* main.py 124-210: the collector is built, generate_files returns
CollectorReturns(w) ==
    /\ wpc[w] = "run"
    /\ wres' = [wres EXCEPT ![w] = Succeeded]
    /\ wpc' = [wpc EXCEPT ![w] = "cp_lock"]
    /\ UNCHANGED << envVars, mainVars, poolVars, monitorState, stop_event,
                    monitorThreadVars, joinTimedOut, wjob, raised, output >>

\* main.py 124-223: the import, the constructor or generate_files raises.
\* `except Exception' turns an Exception into a failed outcome; any other
\* exception leaves run_provider and _WorkItem.run stores it in the future
CollectorRaises(w) ==
    /\ wpc[w] = "run"
    /\ \E e \in CollectorExceptions(wjob[w]) :
         /\ raised' = [raised EXCEPT ![wjob[w]] = e]
         /\ IF IsException(e.kind)
            THEN /\ wres' = [wres EXCEPT ![w] = Failed(e.text)]
                 /\ wpc' = [wpc EXCEPT ![w] = "cp_lock"]
                 /\ UNCHANGED << future, wjob >>
            ELSE /\ future' = [future EXCEPT ![wjob[w]] = ExceptionFuture(e.kind)]
                 /\ wpc' = [wpc EXCEPT ![w] = "idle"]
                 /\ wjob' = [wjob EXCEPT ![w] = "none"]
                 /\ UNCHANGED wres
    /\ UNCHANGED << envVars, mainVars, max_workers, work_queue, yielded,
                    results, monitorState, stop_event, monitorThreadVars,
                    joinTimedOut, output >>

\* main.py 199: generate_files never returns (a network call without end)
CollectorHangs(w) ==
    /\ wpc[w] = "run"
    /\ wpc' = [wpc EXCEPT ![w] = "hung"]
    /\ UNCHANGED << envVars, mainVars, poolVars, monitorState, stop_event,
                    monitorThreadVars, joinTimedOut, wjob, wres, raised,
                    output >>

\* main.py 203-204 / 216-217, 76: complete_provider takes the lock
CompleteAcquire(w) ==
    /\ wpc[w] = "cp_lock"
    /\ CanAcquire(lock)
    /\ lock' = WorkerThread(w)
    /\ wpc' = [wpc EXCEPT ![w] = "cp_remove"]
    /\ UNCHANGED << envVars, mainVars, poolVars, total_providers, completed,
                    in_progress, everInProgress, stop_event, monitorThreadVars,
                    joinTimedOut, wjob, wres, raised, output >>

\* main.py 77-78
CompleteRemove(w) ==
    /\ wpc[w] = "cp_remove"
    /\ in_progress' = RemoveProvider(in_progress, wjob[w])
    /\ wpc' = [wpc EXCEPT ![w] = "cp_add"]
    /\ UNCHANGED << envVars, mainVars, poolVars, total_providers, completed,
                    lock, everInProgress, stop_event, monitorThreadVars,
                    joinTimedOut, wjob, wres, raised, output >>

\* main.py 79: completed.add, then the lock is released
CompleteAdd(w) ==
    /\ wpc[w] = "cp_add"
    /\ completed' = completed \cup {wjob[w]}
    /\ lock' = IF lock = WorkerThread(w) THEN NoThread ELSE lock
    /\ wpc' = [wpc EXCEPT ![w] = "return"]
    /\ UNCHANGED << envVars, mainVars, poolVars, total_providers, in_progress,
                    everInProgress, stop_event, monitorThreadVars,
                    joinTimedOut, wjob, wres, raised, output >>

\* main.py 206-210 / 219-223: run_provider returns its dict and
\* _WorkItem.run stores it with future.set_result
WorkerReturn(w) ==
    /\ wpc[w] = "return"
    /\ future' = [future EXCEPT ![wjob[w]] = ResultFuture(wres[w])]
    /\ wpc' = [wpc EXCEPT ![w] = "idle"]
    /\ wjob' = [wjob EXCEPT ![w] = "none"]
    /\ UNCHANGED << envVars, mainVars, max_workers, work_queue, yielded,
                    results, monitorState, stop_event, monitorThreadVars,
                    joinTimedOut, wres, raised, output >>

MainStep ==
    \/ MainCheckConfig
    \/ MainResolveProviders
    \/ MainStartMonitor
    \/ MainCreatePool
    \/ MainSubmit
    \/ \E p \in Providers : MainCollect(p)
    \/ MainExitWith
    \/ MainUnwind
    \/ MainStop
    \/ MainJoinReturns
    \/ MainJoinTimeout
    \/ MainSummary
    \/ MainExit

MonitorStep ==
    \/ MonLoopCheck
    \/ MonWaitTimeout
    \/ MonWaitSignalled
    \/ MonIfCheck
    \/ MonDisplayAcquire
    \/ MonDisplayEmit

WorkerStep(w) ==
    \/ WorkerTake(w)
    \/ StartAcquire(w)
    \/ StartAdd(w)
    \/ CollectorReturns(w)
    \/ CollectorRaises(w)
    \/ CollectorHangs(w)
    \/ CompleteAcquire(w)
    \/ CompleteRemove(w)
    \/ CompleteAdd(w)
    \/ WorkerReturn(w)

Next ==
    \/ MainStep
    \/ MonitorStep
    \/ \E w \in Workers : WorkerStep(w)

Spec == Init /\ [][Next]_vars

\* every thread that can take a step eventually takes one
FairSpec ==
    /\ Spec
    /\ WF_vars(MainStep)
    /\ WF_vars(MonitorStep)
    /\ \A w \in Workers : WF_vars(WorkerStep(w))

TypeOK ==
    /\ providers_to_process \in SubLists(FirstIdx, LastIdx)
    /\ mainPc \in {"check_config", "resolve", "start_monitor", "create_pool", "submit",
                   "collect", "unwind", "stop", "join", "summary",
                   "exit_check", "exited"}
    /\ monPc \in {"none", "loop_check", "wait", "if_check", "dp_lock",
                  "dp_emit", "done"}
    /\ \A w \in Workers : wpc[w] \in {"idle", "sp_lock", "sp_add", "run", "hung",
                                      "cp_lock", "cp_remove", "cp_add", "return"}
    /\ exit_code \in {0, 1}
    /\ completed \subseteq Providers
    /\ in_progress \subseteq Providers
    /\ \A p \in DOMAIN results : results[p] \in Outcomes

(***************************************************************************)
(* Specification for the termination of the monitor: only the monitor      *)
(* thread is scheduled fairly, so whatever main and the workers do, the    *)
(* monitor takes its steps.  The runs are those of a machine with one CPU  *)
(* (the jobs run one after the other; main, the monitor and the worker     *)
(* interleave freely).                                                     *)
(***************************************************************************)
SingleCpuInit == Init /\ cpu_count = 1

MonitorFairSpec == SingleCpuInit /\ [][Next]_vars /\ WF_vars(MonitorStep)

(***************************************************************************)
(* The collectors and the functions of ip_utils.py, applied to the data a  *)
(* source hands over.  Each is one step: it runs inside one job.           *)
(***************************************************************************)
ip_list == [i \in 1..Len(source_data) |-> source_data[i].ip]

Returns(name, value) ==
    /\ called' = name
    /\ returned' = value
    /\ UNCHANGED << source_data, timed_results, networks, orchestratorVars >>

SeparateIpv4Ipv6 ==
    /\ called = "none"
    /\ Returns("separate_ipv4_ipv6", separate_ipv4_ipv6(ip_list))

SeparateSingleIpsAndRanges ==
    /\ called = "none"
    /\ Returns("separate_single_ips_and_ranges",
               separate_single_ips_and_ranges(ip_list))

CalculateTotalIps ==
    /\ called = "none"
    /\ Returns("calculate_total_ips", calculate_total_ips(ip_list))

\* the strings of datetime.utcnow().strftime(...) at two moments
Timestamps == {"2025-01-01 00:00:00 UTC", "2025-01-01 00:00:01 UTC"}

\* the dict of the counts of a dimension, in insertion order: aws.py 189, 212
counts_of(buckets) ==
    [i \in 1..Len(buckets) |->
        [key |-> buckets[i].key, count |-> Cardinality(buckets[i].ips)]]

\* the call of aws.py 219-232, with or without last_updated
GenerateIndexMarkdown ==
    /\ called = "none"
    /\ \E order \in IterationOrders(aws_extract_ips(source_data).all_ips),
          last_updated \in Timestamps \cup {None}, now \in Timestamps :
          LET extracted == aws_extract_ips(source_data)
              parts == separate_ipv4_ipv6(list_of(extracted.all_ips, order))
              stats == calculate_detailed_stats(list_of(extracted.all_ips, order),
                                                parts.ipv4, parts.ipv6)
          IN  Returns("generate_index_markdown",
                      [stats |-> stats,
                       ipv6_count |-> calculate_total_ips(parts.ipv6),
                       services |-> counts_of(extracted.services_ips),
                       regions |-> counts_of(extracted.regions_ips),
                       last_updated |-> last_updated,
                       document |-> generate_index_markdown(
                           "AWS", stats, calculate_total_ips(parts.ipv6),
                           counts_of(extracted.services_ips),
                           counts_of(extracted.regions_ips), last_updated, now)])

SortIpList ==
    /\ called = "none"
    /\ Returns("sort_ip_list", sort_ip_list(ip_list))

WriteSeparatedIpFiles ==
    /\ called = "none"
    /\ \E suffix \in {"all", "ipv4", "ipv6"} :
          Returns("write_separated_ip_files",
                  [suffix |-> suffix,
                   files |-> write_separated_ip_files(
                                 NoFiles, [dir |-> "", name |-> <<"i", "p", "s">>],
                                 ip_list, suffix)])

CloudflareGenerateFiles ==
    /\ called = "none"
    /\ Returns("cloudflare", cloudflare_generate_files(source_data))

AWSGenerateFiles ==
    /\ called = "none"
    /\ \E order \in IterationOrders(aws_extract_ips(source_data).all_ips) :
          Returns("aws", generate_dimension_files(aws_extract_ips(source_data),
                                                 order))

GCPGenerateFiles ==
    /\ called = "none"
    /\ \E order \in IterationOrders(gcp_extract_ips(source_data).all_ips) :
          Returns("gcp", generate_dimension_files(gcp_extract_ips(source_data),
                                                 order))

OCIGenerateFiles ==
    /\ called = "none"
    /\ \E order \in IterationOrders(oci_extract_ips(source_data).all_ips) :
          Returns("oci", generate_dimension_files(oci_extract_ips(source_data),
                                                 order))

VultrGenerateFiles ==
    /\ called = "none"
    /\ \E order \in IterationOrders(Range(vultr_extract_ips(source_data).all_ips)) :
          Returns("vultr", vultr_generate_files(source_data, order))

\* requests.get or raise_for_status raises requests.RequestException
RequestException == Exc("RequestException", "download failed")

\* what the request of download_data ends with: the document, or an exception
Responses(data) ==
    {[raised |-> NoExc, json |-> data],
     [raised |-> RequestException, json |-> <<>>]}

\* VultrIP.download_data: `except requests.RequestException' logs the error
\* and returns {}; any other exception leaves the method
vultr_download_data(response) ==
    IF response.raised = NoExc
    THEN [raised |-> NoExc, data |-> response.json]
    ELSE IF response.raised.kind = "RequestException"
         THEN [raised |-> NoExc, data |-> <<>>]
         ELSE [raised |-> response.raised, data |-> <<>>]

\* run_provider, from the exception that left collector.generate_files()
run_provider(generate_files_raised) ==
    IF generate_files_raised = NoExc
    THEN Succeeded
    ELSE Failed(generate_files_raised.text)

\* run_provider("Vultr"): generate_files downloads, returns at `if not data'
\* or goes on with the document, and run_provider makes its dict
RunProviderVultr ==
    /\ called = "none"
    /\ \E response \in Responses(source_data) :
         LET downloaded == vultr_download_data(response)
         IN  \E order \in IterationOrders(
                              Range(vultr_extract_ips(downloaded.data).all_ips)) :
                Returns("run_provider",
                        [provider_name |-> "Vultr",
                         acquisition |-> response.raised,
                         generated |-> IF downloaded.raised = NoExc
                                       THEN vultr_generate_files(downloaded.data,
                                                                 order)
                                       ELSE <<>>,
                         result |-> run_provider(downloaded.raised)])

CollectNext ==
    \/ SeparateIpv4Ipv6
    \/ SeparateSingleIpsAndRanges
    \/ SortIpList
    \/ CalculateTotalIps
    \/ GenerateIndexMarkdown
    \/ WriteSeparatedIpFiles
    \/ CloudflareGenerateFiles
    \/ AWSGenerateFiles
    \/ GCPGenerateFiles
    \/ OCIGenerateFiles
    \/ VultrGenerateFiles
    \/ RunProviderVultr

\* the data of one source, in a process that runs no orchestrator
CollectInit ==
    /\ source_data \in SourceInputs
    /\ timed_results = <<>>
    /\ called = "none"
    /\ returned = <<>>
    /\ args_providers = {RequestAll}
    /\ InitState
    /\ configExists
    /\ cpu_count = 1

CollectSpec == CollectInit /\ [][CollectNext]_vars

(***************************************************************************)
(* generate_summary_report, applied to a results dict whose outcomes have  *)
(* their elapsed_time.  A dict is the sequence of its items in insertion   *)
(* order; files is what count_files_in_directory finds for the provider.   *)
(* A line of the log is a record of the values its text is made of.        *)
(***************************************************************************)
\* elapsed times, in seconds
ElapsedTimes == {1, 2}

TimedOutcomes ==
    [success : {TRUE}, error : {NoError}, elapsed_time : ElapsedTimes]
        \cup [success : {FALSE}, error : ErrTexts, elapsed_time : ElapsedTimes]

\* the dicts with distinct keys among the providers of the model
TimedResults ==
    {d \in SeqsUpTo([provider : Providers, result : TimedOutcomes, files : {0, 6}],
                    NumProviders) :
        \A i, j \in 1..Len(d) : i # j => d[i].provider # d[j].provider}

\* a report that lists the providers as the dict holds them
generate_summary_report_Unsorted(timed, total_elapsed_time) ==
    LET successful == Cardinality({i \in 1..Len(timed) : timed[i].result.success})
        failed == Len(timed) - successful
        failures == SelectSeq(timed, LAMBDA item : ~item.result.success)
    IN  <<[kind |-> "summary", duration |-> total_elapsed_time,
           providers |-> Len(timed), success |-> successful, failed |-> failed]>>
        \o (IF failed > 0
            THEN [i \in 1..Len(failures) |->
                     [kind |-> "failure", provider |-> failures[i].provider,
                      error |-> failures[i].result.error]]
            ELSE <<>>)
        \o [i \in 1..Len(timed) |->
               [kind |-> "detail", provider |-> timed[i].provider,
                status |-> IF timed[i].result.success THEN "OK" ELSE "FAILED",
                elapsed_time |-> timed[i].result.elapsed_time,
                files |-> timed[i].files]]

generate_summary_report(timed, total_elapsed_time) ==
    LET successful == Cardinality({i \in 1..Len(timed) : timed[i].result.success})
        failed == Len(timed) - successful
        failures == SelectSeq(timed, LAMBDA item : ~item.result.success)
        sorted_results ==
            sorted(timed, {p \in (1..Len(timed)) \X (1..Len(timed)) :
                                timed[p[1]].result.elapsed_time
                                    < timed[p[2]].result.elapsed_time})
    IN  <<[kind |-> "summary", duration |-> total_elapsed_time,
           providers |-> Len(timed), success |-> successful, failed |-> failed]>>
        \o (IF failed > 0
            THEN [i \in 1..Len(failures) |->
                     [kind |-> "failure", provider |-> failures[i].provider,
                      error |-> failures[i].result.error]]
            ELSE <<>>)
        \o [i \in 1..Len(sorted_results) |->
               [kind |-> "detail", provider |-> sorted_results[i].provider,
                status |-> IF sorted_results[i].result.success THEN "OK" ELSE "FAILED",
                elapsed_time |-> sorted_results[i].result.elapsed_time,
                files |-> sorted_results[i].files]]

GenerateSummaryReport ==
    /\ called = "none"
    /\ \E total_elapsed_time \in ElapsedTimes :
          Returns("generate_summary_report",
                  generate_summary_report(timed_results, total_elapsed_time))

SummaryInit ==
    /\ timed_results \in TimedResults
    /\ source_data = <<>>
    /\ called = "none"
    /\ returned = <<>>
    /\ args_providers = {RequestAll}
    /\ InitState
    /\ configExists
    /\ cpu_count = 1

SummarySpec == SummaryInit /\ [][GenerateSummaryReport]_vars

(***************************************************************************)
(* Specification for the resolution of the command line: args.providers    *)
(* may also hold 'all'.  The runs are those of a machine with one CPU.     *)
(***************************************************************************)
ResolveInit ==
    /\ args_providers \in (SUBSET (WindowChoices \cup {RequestAll})) \ {{}}
    /\ InitState
    /\ cpu_count = 1
    /\ source_data = <<>> /\ called = "none" /\ returned = <<>>
    /\ timed_results = <<>>

ResolveSpec == ResolveInit /\ [][Next]_vars

(***************************************************************************)
(* Vocabulary of the properties.                                           *)
(***************************************************************************)
\* main is past the with block of the pool
AfterPool == {"stop", "join", "summary", "exit_check", "exited"}

\* the outcome the job of p must have, given what its collector did
ExpectedOutcome(p) ==
    IF raised[p] = NoExc THEN Succeeded ELSE Failed(raised[p].text)

SummaryProduced == \E i \in 1..Len(output) : output[i].type = "summary"

\* the status lines logged after the first line of the summary
ProgressAfterSummary ==
    {j \in 1..Len(output) :
        /\ output[j].type = "progress"
        /\ \E i \in 1..(j - 1) : output[i].type = "summary"}

ProgressCount == Cardinality({j \in 1..Len(output) : output[j].type = "progress"})

SomeJobHung == \E w \in Workers : wpc[w] = "hung"

\* the threads inside a `with self.lock' block
InCriticalSection ==
    {WorkerThread(w) : w \in {v \in Workers : wpc[v] \in {"sp_add", "cp_remove", "cp_add"}}}
        \cup (IF monPc = "dp_emit" THEN {MonitorThread} ELSE {})

(***************************************************************************)
(* C1  Failure isolation: an exception raised inside a provider's job      *)
(* becomes that provider's outcome with success = False and error = the    *)
(* exception's text, and once main is past the pool the results map holds  *)
(* the outcome of every dispatched provider, each as its own job ended.    *)
(***************************************************************************)
C1_FailureIsolation ==
    /\ \A p \in DOMAIN future :
          (future[p].state = "FINISHED" /\ raised[p] # NoExc)
              => /\ future[p].exception = "none"
                 /\ future[p].result = Failed(raised[p].text)
    /\ (configExists /\ mainPc \in AfterPool)
          => /\ DOMAIN results = dispatched
             /\ \A p \in dispatched : results[p] = ExpectedOutcome(p)

(***************************************************************************)
(* C2  With the configuration file present, the exit status is non-zero    *)
(* exactly when some recorded outcome has success = False.                 *)
(***************************************************************************)
C2_ExitStatus ==
    (configExists /\ mainPc = "exited")
        => ((exit_code # 0) <=> AnyFailed(results))

(***************************************************************************)
(* C3  pending -> running -> {succeeded, failed}: a name enters            *)
(* in_progress at most once, enters completed only after it has been in    *)
(* in_progress, and once completed it stays completed, is never again in   *)
(* in_progress, and its outcome never changes.                             *)
(***************************************************************************)
C3_JobStateMachine ==
    [][\A p \in Providers :
          /\ (p \notin in_progress /\ p \in in_progress') => p \notin everInProgress
          /\ (p \notin completed /\ p \in completed') => p \in everInProgress
          /\ p \in completed => p \in completed'
          /\ p \in completed' => p \notin in_progress'
          /\ (p \in DOMAIN future /\ future[p].state = "FINISHED")
                => future'[p] = future[p]
          /\ p \in DOMAIN results
                => (p \in DOMAIN results' /\ results'[p] = results[p])
      ]_vars

C3_Witness ==
    \E p \in dispatched, q \in dispatched :
        /\ p \in completed /\ p \in DOMAIN results /\ ~results[p].success
        /\ q \in completed /\ q \in DOMAIN results /\ results[q].success

(***************************************************************************)
(* C4  At most max_workers = os.cpu_count() jobs run at once: the number   *)
(* of providers in in_progress never exceeds the pool size, also when more *)
(* providers are dispatched than there are workers; the others wait in     *)
(* the queue.                                                              *)
(***************************************************************************)
C4_BoundedPool ==
    /\ Cardinality(in_progress) <= cpu_count
    /\ Cardinality({p \in DOMAIN future : future[p].state = "RUNNING"}) <= cpu_count
    /\ \A p \in DOMAIN future :
          future[p].state = "PENDING" => p \notin in_progress \cup completed

(***************************************************************************)
(* C5  start_provider, complete_provider and display_progress run under    *)
(* the one lock: at most one thread is inside them, it holds the lock, and *)
(* display_progress sees every started provider in exactly one of          *)
(* in_progress and completed.                                              *)
(***************************************************************************)
C5_MutualExclusion ==
    /\ Cardinality(InCriticalSection) <= 1
    /\ \A t \in InCriticalSection : lock = t
    /\ monPc = "dp_emit"
          => /\ in_progress \cap completed = {}
             /\ everInProgress = in_progress \cup completed

C5_Witness ==
    /\ monPc = "dp_emit"
    /\ \E w \in Workers : wpc[w] = "cp_lock"
    /\ in_progress # {}

(***************************************************************************)
(* C6  stop() is called only when every dispatched provider is in          *)
(* completed, in_progress is empty and every provider has its outcome.     *)
(***************************************************************************)
C6_StopAfterAllJobs ==
    [][(~stop_event /\ stop_event')
          => /\ completed = dispatched
             /\ in_progress = {}
             /\ DOMAIN results = dispatched
      ]_vars

C6_Witness ==
    /\ stop_event
    /\ Len(providers_to_process) = NumProviders
    /\ AnyFailed(results)

(***************************************************************************)
(* C7  As claimed: no status line of display_progress is logged after the  *)
(* summary has started.                                                    *)
(***************************************************************************)
C7_NoProgressAfterSummary == ProgressAfterSummary = {}

(***************************************************************************)
(* C7  As amended: main waits at most one second for the monitor thread.   *)
(* When the join returned because the thread had ended, no status line     *)
(* follows the summary; when it timed out, at most one does.               *)
(***************************************************************************)
C7_NoProgressAfterSummaryUnlessTimeout ==
    Cardinality(ProgressAfterSummary) <= (IF joinTimedOut THEN 1 ELSE 0)

C7_Witness ==
    /\ SummaryProduced
    /\ ~joinTimedOut
    /\ ProgressCount > 0
    /\ mainPc = "exited"

(***************************************************************************)
(* C8  Once stop() has been called the monitor loop ends (or the process   *)
(* does) without another three-second timeout, and once the loop has seen  *)
(* the stop signal no status line is logged any more.                      *)
(***************************************************************************)
C8_MonitorStops ==
    /\ stop_event ~> (monPc = "done" \/ mainPc = "exited")
    /\ [][stop_event => ticks' = ticks]_vars
    /\ [][(stop_event /\ monPc \in {"loop_check", "done"})
             => /\ monPc' \in {"loop_check", "done"}
                /\ output' = output \/ output'[Len(output')].type # "progress"
         ]_vars

C8_Witness ==
    /\ stop_event
    /\ monPc = "done"
    /\ ticks > 0
    /\ mainPc = "join"

(***************************************************************************)
(* C9  The summary is produced only after every dispatched job has         *)
(* returned, never while a job hangs, and a run that ends with the         *)
(* configuration present has produced it.                                  *)
(***************************************************************************)
C9_RunCompletion ==
    /\ SummaryProduced => \A p \in dispatched :
                              p \in DOMAIN future /\ future[p].state = "FINISHED"
    /\ SomeJobHung => ~SummaryProduced
    /\ (configExists /\ mainPc = "exited") => SummaryProduced

(***************************************************************************)
(* C10  Without the configuration file the process exits with a non-zero   *)
(* status before the monitor exists and before any job is submitted: no    *)
(* provider is ever in in_progress and no outcome is recorded.             *)
(***************************************************************************)
C10_FatalStartup ==
    ~configExists
        => /\ mainPc \in {"check_config", "exited"}
           /\ mainPc = "exited" => exit_code # 0
           /\ monPc = "none"
           /\ max_workers = 0
           /\ DOMAIN future = {} /\ work_queue = <<>>
           /\ in_progress = {} /\ everInProgress = {} /\ completed = {}
           /\ DOMAIN results = {}

C10_Witness ==
    /\ ~configExists
    /\ mainPc = "exited"
    /\ exit_code = 1
    /\ Cardinality(args_providers) = NumProviders

(***************************************************************************)
(* C11  The list of providers to process is computed once, from the        *)
(* arguments, before the first job is submitted: 'all' selects every       *)
(* provider, otherwise exactly the providers whose normalized name matches *)
(* a requested identifier, in the order of all_providers and without       *)
(* duplicates.  No job outside the list starts, and no job of the list is  *)
(* skipped or cancelled.                                                   *)
(***************************************************************************)
NormalizedName(p) == str_remove(str_lower(name_chars[p]), "_")
NormalizedRequest(r) == str_remove(str_remove(r, "-"), "_")
Position(p) == CHOOSE i \in 1..Len(all_providers) : all_providers[i] = p
Resolved == configExists /\ mainPc \notin {"check_config", "resolve"}

C11_ResolvedBeforeDispatch ==
    /\ [](Resolved
            => /\ dispatched =
                     IF RequestAll \in args_providers
                     THEN Providers
                     ELSE {p \in Providers :
                              \E r \in args_providers :
                                  NormalizedName(p) = NormalizedRequest(r)}
               /\ \A i, j \in 1..Len(providers_to_process) :
                     i < j => Position(providers_to_process[i])
                                 < Position(providers_to_process[j]))
    /\ [](~Resolved => providers_to_process = <<>>)
    /\ [][providers_to_process' # providers_to_process
             => /\ mainPc = "resolve"
                /\ DOMAIN future = {} /\ work_queue = <<>> /\ everInProgress = {}
         ]_vars
    /\ [](/\ DOMAIN future \subseteq dispatched
          /\ Range(work_queue) \subseteq dispatched
          /\ everInProgress \subseteq dispatched)
    /\ [][\A p \in DOMAIN future :
             /\ p \in DOMAIN future'
             /\ (p \in Range(work_queue) /\ p \notin Range(work_queue'))
                   => p \in everInProgress' \/ \E w \in Workers : wjob'[w] = p
         ]_vars
    /\ []((configExists /\ mainPc = "exited") => everInProgress = dispatched)

C11_Witness ==
    /\ configExists
    /\ mainPc = "exited"
    /\ RequestAll \notin args_providers
    /\ Len(providers_to_process) = 1
    /\ NumProviders > 1
    /\ everInProgress = dispatched

(***************************************************************************)
(* Vocabulary of the properties of the collectors.                         *)
(***************************************************************************)
Count(s, x) == Cardinality({i \in 1..Len(s) : s[i] = x})

NoDuplicates(s) == \A i, j \in 1..Len(s) : i # j => str_strip(s[i]) # str_strip(s[j])

\* the texts of the data that parse as a network
ValidTexts == {x \in Range(ip_list) : networks[x].version # 0}

HasSlash(x) == "/" \in Range(x)

\* x is not after y in the numeric order of the network addresses
AddressLeq(x, y) ==
    LET a == networks[x].network_address
        b == networks[y].network_address
    IN  a = b \/ \E i \in 1..Len(a) : a[i] < b[i] /\ \A j \in 1..(i - 1) : a[j] = b[j]

\* the lines of the files of a bucket that hold all its literals
BucketLines(files, dir, key) ==
    UNION {Range(files[p]) : p \in {q \in DOMAIN files :
                                       /\ q.dir = dir
                                       /\ q.name = sanitize_filename(key)
                                       /\ q.suffix = "all"}}

GlobalFile(kind, suffix) ==
    [dir |-> "", name |-> <<"i", "p", "s">>, kind |-> kind, suffix |-> suffix]

(***************************************************************************)
(* C12  Deduplication: no output file of a source holds the same trimmed   *)
(* literal twice, and the literals counted for the statistics hold no two  *)
(* entries with the same trimmed text.  Stated for Cloudflare.             *)
(***************************************************************************)
C12_Deduplication ==
    called = "cloudflare"
        => /\ \A p \in DOMAIN returned.files : NoDuplicates(returned.files[p])
           /\ NoDuplicates(returned.all_ips)

(***************************************************************************)
(* C13  Invalid input is dropped silently: a text that does not parse as a *)
(* network is in no output file and is not counted in the total of the     *)
(* statistics.  Stated for AWS.                                            *)
(***************************************************************************)
C13_InvalidDropped ==
    called = "aws"
        => /\ \A p \in DOMAIN returned.files :
                 Range(returned.files[p]) \subseteq ValidTexts
           /\ returned.index[1].total = Cardinality(ValidTexts)

(***************************************************************************)
(* C14  A bucket never holds an invalid literal: after extraction every    *)
(* member of every bucket parses as a network, and the count reported for  *)
(* a key is the number of literals written to the files of its bucket.     *)
(* Stated for AWS.                                                         *)
(***************************************************************************)
C14_BucketsValid ==
    called = "aws"
        => /\ \A i \in 1..Len(returned.services_ips) :
                 LET b == returned.services_ips[i]
                 IN  /\ b.ips \subseteq ValidTexts
                     /\ returned.service_counts[b.key] =
                           Cardinality(BucketLines(returned.files, "services", b.key))
           /\ \A i \in 1..Len(returned.regions_ips) :
                 LET b == returned.regions_ips[i]
                 IN  /\ b.ips \subseteq ValidTexts
                     /\ returned.region_counts[b.key] =
                           Cardinality(BucketLines(returned.files, "regions", b.key))

(***************************************************************************)
(* C15  The family split is a partition: the IPv4 list and the IPv6 list   *)
(* of separate_ipv4_ipv6 are disjoint, hold only valid literals of their   *)
(* family, keep the order and the multiplicity of the input, and together  *)
(* hold exactly the valid literals of the input.                           *)
(***************************************************************************)
C15_FamilyPartition ==
    called = "separate_ipv4_ipv6"
        => /\ Range(returned.ipv4) \cap Range(returned.ipv6) = {}
           /\ \A x \in Range(returned.ipv4) : networks[x].version = 4
           /\ \A x \in Range(returned.ipv6) : networks[x].version = 6
           /\ returned.ipv4 = SelectSeq(ip_list, LAMBDA x : x \in Range(returned.ipv4))
           /\ returned.ipv6 = SelectSeq(ip_list, LAMBDA x : x \in Range(returned.ipv6))
           /\ Range(returned.ipv4) \cup Range(returned.ipv6) = ValidTexts

C15_Witness ==
    /\ called = "separate_ipv4_ipv6"
    /\ Len(returned.ipv4) = 2
    /\ Len(returned.ipv6) = 1

(***************************************************************************)
(* C16  Classification: a valid literal is IPv4 when dotted and IPv6 when  *)
(* written with colons, and it is single exactly when its text has no '/', *)
(* whatever the prefix length.  Scenario A gives ranges_ipv4 =             *)
(* {192.0.2.0/24}, single_ipv4 = {192.0.2.5}, ranges_ipv6 =                *)
(* {2001:db8::/32}, total 3, one IPv4 range, one single IPv4 address, one  *)
(* IPv6 range.                                                             *)
(***************************************************************************)
C16_Classification ==
    /\ called = "separate_single_ips_and_ranges"
          => /\ Range(returned.single) = {x \in Range(ip_list) : ~HasSlash(x)}
             /\ Range(returned.ranges) = {x \in Range(ip_list) : HasSlash(x)}
    /\ called = "cloudflare"
          => /\ \A x \in Range(returned.all_ips) :
                   \A kind \in {"single", "ranges"}, suffix \in {"ipv4", "ipv6"} :
                       (/\ GlobalFile(kind, suffix) \in DOMAIN returned.files
                        /\ x \in Range(returned.files[GlobalFile(kind, suffix)]))
                          <=> /\ kind = (IF HasSlash(x) THEN "ranges" ELSE "single")
                              /\ suffix = (IF "." \in Range(x) THEN "ipv4" ELSE "ipv6")
             /\ ip_list = ScenarioA
                   => /\ returned.files[GlobalFile("ranges", "ipv4")] = <<ScenarioA[1]>>
                      /\ returned.files[GlobalFile("single", "ipv4")] = <<ScenarioA[2]>>
                      /\ returned.files[GlobalFile("ranges", "ipv6")] = <<ScenarioA[3]>>
                      /\ GlobalFile("single", "ipv6") \notin DOMAIN returned.files
                      /\ returned.index[1].total = 3
                      /\ returned.index[1].ipv4_ranges_only = 1
                      /\ returned.index[1].ipv4_single = 1
                      /\ returned.index[1].ipv6_ranges_only = 1

C16_Witness ==
    /\ called = "cloudflare"
    /\ ip_list = ScenarioA
    /\ Cardinality(DOMAIN returned.files) = 5

(***************************************************************************)
(* C17  No empty files: write_separated_ip_files creates the _single_ file *)
(* only for a list with a literal without '/', the _ranges_ file only for  *)
(* a list with a literal with '/', nothing for an empty list, and every    *)
(* file it creates has at least one line.                                  *)
(***************************************************************************)
C17_NoEmptyFiles ==
    called = "write_separated_ip_files"
        => /\ DOMAIN returned.files \subseteq
                 {GlobalFile(kind, returned.suffix) : kind \in {"single", "ranges"}}
           /\ GlobalFile("single", returned.suffix) \in DOMAIN returned.files
                 <=> \E x \in Range(ip_list) : ~HasSlash(x)
           /\ GlobalFile("ranges", returned.suffix) \in DOMAIN returned.files
                 <=> \E x \in Range(ip_list) : HasSlash(x)
           /\ ip_list = <<>> => DOMAIN returned.files = {}
           /\ \A p \in DOMAIN returned.files : Len(returned.files[p]) >= 1

C17_Witness ==
    /\ called = "write_separated_ip_files"
    /\ Len(ip_list) = 2
    /\ DOMAIN returned.files = {GlobalFile("ranges", "ipv6")}

(***************************************************************************)
(* C18  sort_ip_list returns a permutation of its list.  When every entry  *)
(* parses, the IPv4 entries precede the IPv6 entries and each family is in *)
(* non-decreasing numeric order of the network address; when an entry does *)
(* not parse, the whole list is in lexicographic order.                    *)
(***************************************************************************)
C18_SortOrder ==
    called = "sort_ip_list"
        => /\ Len(returned) = Len(ip_list)
           /\ \A x \in Range(ip_list) : Count(returned, x) = Count(ip_list, x)
           /\ IF Range(ip_list) = ValidTexts
              THEN \A i, j \in 1..Len(returned) :
                      i < j => /\ networks[returned[i]].version
                                     <= networks[returned[j]].version
                               /\ networks[returned[i]].version
                                     = networks[returned[j]].version
                                     => AddressLeq(returned[i], returned[j])
              ELSE \A i, j \in 1..Len(returned) :
                      i < j => ~str_less(returned[j], returned[i])

C18_Witness ==
    /\ called = "sort_ip_list"
    /\ Range(ip_list) = ValidTexts
    /\ Len(returned) = 2
    /\ returned # ip_list
    /\ networks[returned[1]].version = 4
    /\ networks[returned[2]].version = 6

(***************************************************************************)
(* C19  Idempotence of output: the content of every file AWS writes is a   *)
(* function of the set of literals only; it is the same in whatever order  *)
(* the set is iterated before the sort, also when two literals of a file   *)
(* have the same network.                                                  *)
(***************************************************************************)
C19_Idempotence ==
    called = "aws"
        => \A order \in IterationOrders(returned.all_ips) :
              generate_dimension_files(aws_extract_ips(source_data), order).files
                 = returned.files

(***************************************************************************)
(* C20  Partition completeness: in AWS, OCI and Vultr the buckets of every *)
(* dimension hold only members of the source's global set of literals, a   *)
(* key has one bucket, and every literal tagged with a key is a member of  *)
(* the bucket of that key.                                                 *)
(***************************************************************************)
Tagged(dimension, key) ==
    {source_data[i].ip : i \in {j \in 1..Len(source_data) :
                                   /\ source_data[j][dimension] = key
                                   /\ source_data[j].ip \in ValidTexts}}

Complete(buckets, dimension, global) ==
    /\ \A i \in 1..Len(buckets) : buckets[i].ips \subseteq global
    /\ \A i, j \in 1..Len(buckets) : i # j => buckets[i].key # buckets[j].key
    /\ \A i \in 1..Len(source_data) :
          LET key == source_data[i][dimension]
          IN  (key # Absent /\ Tagged(dimension, key) # {})
                  => \E b \in Range(buckets) :
                        b.key = key /\ Tagged(dimension, key) \subseteq b.ips

C20_PartitionCompleteness ==
    /\ called \in {"aws", "oci"}
          => /\ Complete(returned.services_ips, "service", returned.all_ips)
             /\ Complete(returned.regions_ips, "region", returned.all_ips)
    /\ called = "vultr"
          => Complete(returned.regions_ips, "region", Range(returned.all_ips))

C20_Witness ==
    /\ called = "aws"
    /\ Len(returned.services_ips) = 2
    /\ Len(returned.regions_ips) = 1
    /\ Cardinality(returned.regions_ips[1].ips) = 2
    /\ returned.all_ips \subseteq ValidTexts

(***************************************************************************)
(* C21  Multi-dimension membership: in AWS a literal tagged with a service *)
(* and a region is a member of the bucket of its service and of the bucket *)
(* of its region, and is a line of the files of both; the buckets of a     *)
(* dimension are the same whatever the keys of the other dimension.        *)
(***************************************************************************)
Bucket(buckets, key) == UNION {b.ips : b \in {c \in Range(buckets) : c.key = key}}

\* the data with the keys of a dimension taken away
Without(dimension) ==
    [i \in 1..Len(source_data) |-> [source_data[i] EXCEPT ![dimension] = Absent]]

MemberOfBoth ==
    \A i \in 1..Len(source_data) :
        LET prefix == source_data[i]
        IN  (prefix.ip \in ValidTexts /\ prefix.service # Absent
                                      /\ prefix.region # Absent)
                => /\ prefix.ip \in Bucket(returned.services_ips, prefix.service)
                   /\ prefix.ip \in Bucket(returned.regions_ips, prefix.region)

WrittenToBoth ==
    \A i \in 1..Len(source_data) :
        LET prefix == source_data[i]
        IN  (prefix.ip \in ValidTexts /\ prefix.service # Absent
                                      /\ prefix.region # Absent)
                => /\ prefix.ip \in BucketLines(returned.files, "services",
                                                prefix.service)
                   /\ prefix.ip \in BucketLines(returned.files, "regions",
                                                prefix.region)

DimensionsIndependent ==
    /\ aws_extract_ips(Without("region")).services_ips = returned.services_ips
    /\ aws_extract_ips(Without("service")).regions_ips = returned.regions_ips

C21_MultiDimension ==
    called = "aws" => MemberOfBoth /\ WrittenToBoth /\ DimensionsIndependent

(***************************************************************************)
(* C22  Order independence of partitioning: in AWS and GCP the extraction  *)
(* of every permutation of the records gives the same keys, the same set   *)
(* of literals for every key and the same global set, and so does the      *)
(* extraction of the records followed by the same records once more.       *)
(***************************************************************************)
Reorderings(s) ==
    {[i \in 1..Len(s) |-> s[f[i]]] :
        f \in {g \in [1..Len(s) -> 1..Len(s)] : Range(g) = 1..Len(s)}}

\* a dict as the set of its items
Items(buckets) == {<<buckets[i].key, buckets[i].ips>> : i \in 1..Len(buckets)}

Extraction(data) ==
    IF called = "aws" THEN aws_extract_ips(data) ELSE gcp_extract_ips(data)

SameExtraction(data) ==
    /\ Items(Extraction(data).services_ips) = Items(returned.services_ips)
    /\ Items(Extraction(data).regions_ips) = Items(returned.regions_ips)
    /\ Extraction(data).all_ips = returned.all_ips

C22_OrderIndependence ==
    called \in {"aws", "gcp"}
        => /\ \A data \in Reorderings(source_data) : SameExtraction(data)
           /\ SameExtraction(source_data \o source_data)

C22_Witness ==
    /\ called = "gcp"
    /\ Len(returned.services_ips) = 2
    /\ Cardinality(returned.all_ips) = 2
    /\ \E data \in Reorderings(source_data) :
          gcp_extract_ips(data).services_ips # returned.services_ips

(***************************************************************************)
(* C23  IPv6 address space is counted in /64 blocks: calculate_total_ips   *)
(* adds 2^(64-p) for an IPv6 literal of prefix length p <= 64, nothing for *)
(* an IPv6 literal of a longer prefix (2001:db8::/65, a single IPv6        *)
(* address), 2^(32-p) for an IPv4 literal, nothing for a text that does    *)
(* not parse.                                                              *)
(***************************************************************************)
Contribution(ip) ==
    LET p == networks[ip].prefixlen
    IN  IF networks[ip].version = 6
        THEN (IF p <= 64 THEN int_pow2(64 - p) ELSE <<>>)
        ELSE IF networks[ip].version = 4 THEN int_pow2(32 - p)
        ELSE <<>>

ContributionsUpTo[i \in 0..Len(ip_list)] ==
    IF i = 0 THEN <<>>
    ELSE int_add(ContributionsUpTo[i - 1], Contribution(ip_list[i]))

ScenarioF == <<"2", "0", "0", "1", ":", "d", "b", "8", ":", ":", "/", "6", "5">>

C23_Slash64Blocks ==
    called = "calculate_total_ips"
        => /\ returned = ContributionsUpTo[Len(ip_list)]
           /\ ip_list = <<ScenarioF>> => returned = <<>>

C23_Witness ==
    /\ called = "calculate_total_ips"
    /\ Len(ip_list) = 2
    /\ ip_list[1] = ScenarioF
    /\ networks[ip_list[2]].version = 6
    /\ networks[ip_list[2]].prefixlen = 32
    /\ returned = <<0, 0, 1>>

(***************************************************************************)
(* C24  Deterministic report: with an explicit timestamp the document of   *)
(* generate_index_markdown is the same whatever the insertion order of the *)
(* two maps of counts and whatever the clock shows, and the rows of each   *)
(* table are in ascending order of their keys.                             *)
(***************************************************************************)
RowKeys(document) ==
    LET rows == SelectSeq(document, LAMBDA line : line[1] = "| ")
    IN  [i \in 1..Len(rows) |-> rows[i][2]]

Ascending(keys) == \A i, j \in 1..Len(keys) : i < j => str_less(keys[i], keys[j])

C24_DeterministicReport ==
    (called = "generate_index_markdown" /\ returned.last_updated # None)
        => /\ \A services \in Reorderings(returned.services),
                 regions \in Reorderings(returned.regions), now \in Timestamps :
                 generate_index_markdown("AWS", returned.stats, returned.ipv6_count,
                                         services, regions, returned.last_updated,
                                         now)
                    = returned.document
           /\ LET keys == RowKeys(returned.document)
                   n == Len(returned.services)
               IN  /\ Len(keys) = n + Len(returned.regions)
                   /\ Ascending(SubSeq(keys, 1, n))
                   /\ Ascending(SubSeq(keys, n + 1, Len(keys)))
                   /\ Range(SubSeq(keys, 1, n))
                         = {returned.services[i].key : i \in 1..n}

C24_Witness ==
    /\ called = "generate_index_markdown"
    /\ returned.last_updated # None
    /\ Len(returned.services) = 2
    /\ str_less(returned.services[2].key, returned.services[1].key)
    /\ Len(returned.regions) = 2

(***************************************************************************)
(* C25  Result aggregation: in the summary the success count plus the      *)
(* failure count is the number of outcomes, the failure lines are those of *)
(* the providers whose outcome has success = False, each with its error,   *)
(* and the detail lines hold every provider once, in non-decreasing order  *)
(* of elapsed time.                                                        *)
(***************************************************************************)
Lines(kind) == SelectSeq(returned, LAMBDA line : line.kind = kind)

C25_ResultAggregation ==
    called = "generate_summary_report"
        => /\ Len(Lines("summary")) = 1
           /\ Lines("summary")[1].success + Lines("summary")[1].failed
                 = Len(timed_results)
           /\ Lines("summary")[1].success
                 = Cardinality({i \in 1..Len(timed_results) :
                                   timed_results[i].result.success})
           /\ Len(Lines("failure")) = Lines("summary")[1].failed
           /\ {<<line.provider, line.error>> : line \in Range(Lines("failure"))}
                 = {<<item.provider, item.result.error>> :
                       item \in {it \in Range(timed_results) : ~it.result.success}}
           /\ Len(Lines("detail")) = Len(timed_results)
           /\ {line.provider : line \in Range(Lines("detail"))}
                 = {item.provider : item \in Range(timed_results)}
           /\ \A i \in 1..Len(timed_results) :
                 \E j \in 1..Len(Lines("detail")) :
                     /\ Lines("detail")[j].provider = timed_results[i].provider
                     /\ Lines("detail")[j].elapsed_time
                           = timed_results[i].result.elapsed_time
                     /\ Lines("detail")[j].status = "OK"
                           <=> timed_results[i].result.success
           /\ \A i, j \in 1..Len(Lines("detail")) :
                 i < j => Lines("detail")[i].elapsed_time
                             <= Lines("detail")[j].elapsed_time

C25_Witness ==
    /\ called = "generate_summary_report"
    /\ Len(timed_results) = 2
    /\ timed_results[1].result.elapsed_time > timed_results[2].result.elapsed_time
    /\ ~timed_results[1].result.success
    /\ timed_results[2].result.success
    /\ Len(Lines("failure")) = 1

(***************************************************************************)
(* C26.  An error raised during a source's acquisition makes the job of    *)
(* that source end with a failed outcome: run_provider never returns       *)
(* success = True for a job whose download raised an error.                *)
(***************************************************************************)
C26_AcquisitionErrorFails ==
    (called = "run_provider" /\ returned.acquisition # NoExc)
        => ~returned.result.success

(***************************************************************************)
(* C27.  In every reachable state of a run in_progress and completed are   *)
(* disjoint, both hold only dispatched provider names, and                 *)
(* |completed| + |in_progress| <= total_providers: the pending count of    *)
(* display_progress is never negative, in no status line it has logged     *)
(* and in none it could log now.                                           *)
(***************************************************************************)
C27_ProgressSetsConsistent ==
    /\ in_progress \cap completed = {}
    /\ in_progress \subseteq dispatched
    /\ completed \subseteq dispatched
    /\ Cardinality(completed) + Cardinality(in_progress) <= total_providers
    /\ ProgressLine.pending >= 0
    /\ \A i \in 1..Len(output) :
          output[i].type = "progress" => output[i].pending >= 0

C27_Witness ==
    /\ Cardinality(completed) + Cardinality(in_progress) = total_providers
    /\ completed # {}
    /\ in_progress # {}
    /\ \E i \in 1..Len(output) :
          /\ output[i].type = "progress"
          /\ output[i].pending = 0
          /\ output[i].completed > 0
          /\ output[i].running # {}

(***************************************************************************)
(* C28.  Bucket files are per key: after AWS generate_files the files      *)
(* written under the sanitized name of a key hold exactly the literals of  *)
(* the bucket of that key (those that parse: the others are in no file),   *)
(* for every key of both dimensions, also when two keys of a dimension     *)
(* have the same sanitized name.                                           *)
(***************************************************************************)
FilesOfOwnBucket(dir, buckets) ==
    \A i \in 1..Len(buckets) :
        BucketLines(returned.files, dir, buckets[i].key)
            = buckets[i].ips \cap ValidTexts

C28_BucketFilesPerKey ==
    called = "aws"
        => /\ FilesOfOwnBucket("services", returned.services_ips)
           /\ FilesOfOwnBucket("regions", returned.regions_ips)

(***************************************************************************)
(* C29.  Statistics are consistent: in the statistics a collector gets     *)
(* from calculate_detailed_stats for its all_ips, all_ipv4 and all_ipv6,   *)
(* total = ipv4_single + ipv4_ranges_only + ipv6_single + ipv6_ranges_only *)
(* and total = ipv4_ranges + ipv6_ranges.  Stated for every collector of   *)
(* the model.                                                              *)
(***************************************************************************)
ConsistentStats(stats) ==
    /\ stats.total = stats.ipv4_single + stats.ipv4_ranges_only
                        + stats.ipv6_single + stats.ipv6_ranges_only
    /\ stats.ipv4_ranges + stats.ipv6_ranges = stats.total

C29_StatisticsConsistent ==
    called \in {"aws", "gcp", "oci", "cloudflare", "vultr"}
        => \A i \in 1..Len(returned.index) : ConsistentStats(returned.index[i])

(***************************************************************************)
(* C30.  Progress is monotonic: completed only grows; when                 *)
(* display_progress logs a status line its completed count is not below    *)
(* that of any earlier status line and not above total_providers, and      *)
(* every name it lists as in progress is a job that has started and has    *)
(* not yet finished.                                                       *)
(***************************************************************************)
\* the step logs a status line
StatusLineLogged ==
    /\ Len(output') = Len(output) + 1
    /\ output'[Len(output')].type = "progress"

CompletedGrows == completed \subseteq completed'

CountMonotonic ==
    LET line == output'[Len(output')]
    IN  /\ line.completed <= line.total
        /\ \A i \in 1..Len(output) :
              output[i].type = "progress" => output[i].completed <= line.completed

\* the jobs that have started and not yet finished: their future is RUNNING
ListedJobsRunning ==
    \A p \in output'[Len(output')].running : future[p].state = "RUNNING"

C30_ProgressMonotonic ==
    [][/\ CompletedGrows
       /\ StatusLineLogged => (CountMonotonic /\ ListedJobsRunning)
      ]_vars

=============================================================================
